---- MODULE Spec2Model ----
(***************************************************************************)
(* Generation orchestrator of the desktop assistant (ThreadPresenter).     *)
(*                                                                         *)
(* The module models, from the TypeScript source,                          *)
(*   - the prompt builder's context-window budgeting                       *)
(*     (preparePromptContent / selectContextMessages),                     *)
(*   - the stream event processor (handleLLMAgentResponse),                *)
(*   - the life cycle of one generation: generateAIResponse,               *)
(*     startStreamCompletion with its search subflow, the end and error    *)
(*     handlers and stopMessageGeneration, each split at the awaits of     *)
(*     the source so that handlers interleave as they do on the event loop.*)
(*                                                                         *)
(* A store call (sqlite read or write) takes effect where it is called;    *)
(* the continuation after its await is a separate step.                    *)
(***************************************************************************)
EXTENDS Integers, Sequences, FiniteSets, TLC

(***************************************************************************)
(* Bounds of the model.                                                    *)
(***************************************************************************)
MaxHistory == 5        \* messages in the history handed to the prompt builder
MaxStreamEvents == 4   \* response events of one stream (stream event processor)
MaxEvents == 2         \* response events of one stream (generation life cycle)
MaxStops == 1          \* stop requests for one message

VARIABLES
    \* ---- prompt builder (preparePromptContent) ----
    contextMessages,     \* history handed to the prompt builder, oldest first
    userMessageId,       \* id of the triggering user message
    contextLength,       \* conversation.settings.contextLength
    searchPromptLen,     \* length of the search prompt ("" when no search ran)
    systemPromptLen,     \* length of the system prompt ("" when unset)
    userContentLen,      \* length of userContent + enrichedUserMessage
    selectedContextMessages, \* result of selectContextMessages
    bpc,                 \* position of the prompt builder: "input" | "built"
    \* ---- generating state of the assistant message (GeneratingMessageState) ----
    generatingMessages,  \* keys of the generatingMessages map
    content,             \* state.message.content: the in-memory block list
    isCancelled,         \* state.isCancelled
    isSearching,         \* state.isSearching
    firstTokenTime,      \* state.firstTokenTime # null
    reasoningStartTime,  \* state.reasoningStartTime # null
    totalUsage,          \* state.totalUsage
    promptTokens,        \* state.promptTokens
    \* ---- message store (sqlite row of the assistant message) ----
    dbContent,           \* persisted content
    dbStatus,            \* persisted status: "none" | "pending" | "sent" | "error"
    dbMeta,              \* persisted metadata
    \* ---- startStreamCompletion and the handlers it awaits ----
    pc,                  \* position of the generation flow
    cur,                 \* event of the handler that is awaiting
    lastIdx,             \* index of the block held in lastBlock by that handler
    nEvents,             \* response events delivered by the backend stream
    emits,               \* STREAM_EVENTS.RESPONSE emissions of handleLLMAgentResponse
    streamOpened,        \* llmProviderPresenter.startStreamCompletion was called
    searchEnabled,       \* the user message asks for a web search
    results,             \* search results still to be stored as attachments
    searchErr,           \* what the catch block of startStreamSearch caught
    searchResults,       \* searchResults of startStreamCompletion: their number, or null
    engineCall,          \* the searchManager.search call in flight: rewrite outcome and query
    hmeContent,          \* handleMessageError: the content it read and marks
    hmeMsg,              \* handleMessageError: its errorMessage
    hmeRet,              \* handleMessageError: who awaits it
    endTokens,           \* handleLLMAgentEnd: completionTokens
    userStop,            \* userStop of the end event
    surfaced,            \* how a failure reached the caller: "rejected" | "event"
    errored,             \* which error handling has completed
    \* ---- stopMessageGeneration ----
    stopPc,              \* number of stop requests at each position
    stopStreamCalled,    \* llmProviderPresenter.stopStream was called
    stopSearchCalled,    \* searchManager.stopSearch was called
    \* ---- history ----
    cancels,             \* cancel blocks pushed so far
    closedAt,            \* indices of the blocks a stop request closed
    cancelAt,            \* indices of the cancel blocks
    reportedUsage,       \* last usage totals delivered to the generation
    last,                \* the response event whose block mutations ran last
    run,                 \* the current run of consecutive deltas of one kind
    \* ---- startup recovery (initializeUnfinishedMessages) ----
    conversations,       \* the stored conversations with their message threads
    recovery,            \* position and locals of initializeUnfinishedMessages
    \* ---- several generations at once ----
    states,              \* generatingMessages: message id -> its generating state
    rows,                \* message store: message id -> stored content and status
    flows,               \* message id -> position of its stream loop and of its stop call
    convStop,            \* position and messageIds of stopConversationGeneration
    \* ---- entries sent to the backend (formatMessagesForCompletion) ----
    fmt,                 \* vision, image files, enrichment; formatted and merged entries
    \* ---- continueStreamCompletion ----
    cont,                \* position of each continue request, and the tool calls made
    \* ---- event-bus variant of the orchestrator ----
    bus,                 \* emitted response events, their handlers, the block list
    \* ---- generations started for a conversation ----
    starts,              \* generatingMessages in insertion order, and the start requests
    \* ---- clearAllMessages ----
    clear,               \* position of clearAllMessages, its conversation, activeConversationId
    \* ---- renderer chat store ----
    store,               \* generatingThreadIds, generatingMessagesCache and the calls of the store
    \* ---- presenter and renderer side by side ----
    mirror,              \* block lists of one message built by the presenter and by the renderer
    \* ---- OpenAI-compatible adapter (openAIStreamCompletion) ----
    adapter              \* locals of the chunk loop, chunks consumed, outputs yielded

recoveryVars == <<conversations, recovery>>
multiVars == <<states, rows, flows, convStop>>
laterVars == <<bus, starts, clear, store, mirror, adapter>>
sideVars == <<fmt, cont, laterVars>>
idleFlows == <<recoveryVars, multiVars, sideVars>>
otherFlows == <<idleFlows, engineCall>>
budgetVars == <<contextMessages, userMessageId, contextLength, searchPromptLen,
                systemPromptLen, userContentLen, selectedContextMessages, bpc>>
stateVars == <<isCancelled, isSearching, firstTokenTime, reasoningStartTime,
               totalUsage, promptTokens>>
dbVars == <<dbContent, dbStatus, dbMeta>>
stopVars == <<stopPc, stopStreamCalled, stopSearchCalled>>

\* Positions of a stop request in stopMessageGeneration; the requests are
\* indistinguishable, so stopPc counts the requests at each position.
StopPositions == {"idle", "noop", "search", "status", "edit", "stream", "done"}

StopMove(from, to) == [stopPc EXCEPT ![from] = @ - 1, ![to] = @ + 1]
histVars == <<cancels, closedAt, cancelAt>>
endVars == <<endTokens, userStop>>
lifeVars == <<stopVars, streamOpened, searchEnabled, results, searchErr, searchResults, hmeContent, hmeMsg,
              hmeRet, surfaced, errored, histVars, endVars>>

(***************************************************************************)
(* Token estimator.  approximateTokenSize comes from the tokenx package:   *)
(* about one token per four characters, rounded up.  Texts are strings     *)
(* where their content matters and lengths where only their size does.     *)
(***************************************************************************)
TokensOfLen(n) == (n + 3) \div 4

approximateTokenSize(s) == TokensOfLen(Len(s))

(***************************************************************************)
(* Prompt builder: context-window budgeting.                               *)
(***************************************************************************)
\* Lengths (in characters) a history message may have: 0, 150 and 300 tokens.
MsgLens == {0, 600, 1200}
ContextLengths == {0, 60, 300, 1000}
SystemPromptLens == {0, 40}
SearchPromptLens == {0, 400}
UserContentLens == {200, 1300}

RECURSIVE SeqsUpTo(_, _)
SeqsUpTo(S, n) ==
    IF n = 0 THEN {<<>>}
    ELSE LET shorter == SeqsUpTo(S, n - 1)
         IN shorter \cup {Append(q, x) : q \in {r \in shorter : Len(r) = n - 1}, x \in S}

\* A history of n messages; the message at position i has id i.
Histories ==
    {[i \in 1..Len(ls) |-> [id |-> i, len |-> ls[i]]] : ls \in SeqsUpTo(MsgLens, MaxHistory)}

Reverse(s) == [i \in 1..Len(s) |-> s[Len(s) + 1 - i]]

msgTokens(msg) == TokensOfLen(msg.len)

\* reservedTokens of preparePromptContent: an empty prompt costs nothing.
searchPromptTokens == IF searchPromptLen > 0 THEN TokensOfLen(searchPromptLen) ELSE 0
systemPromptTokens == IF systemPromptLen > 0 THEN TokensOfLen(systemPromptLen) ELSE 0
userMessageTokens == TokensOfLen(userContentLen)
reservedTokens == searchPromptTokens + systemPromptTokens + userMessageTokens
\* A variant that reserves nothing.
remainingContextLength_NoReserve == contextLength

remainingContextLength == contextLength - reservedTokens

\* The for loop of selectContextMessages over the reversed (newest first)
\* list: unshift while the message fits, break at the first that does not.
RECURSIVE SelectLoop(_, _, _, _)
SelectLoop(messages, remaining, currentLength, selectedMessages) ==
    IF messages = <<>> THEN selectedMessages
    ELSE LET msg == Head(messages)
         IN IF currentLength + msgTokens(msg) <= remaining
            THEN SelectLoop(Tail(messages), remaining,
                            currentLength + msgTokens(msg), <<msg>> \o selectedMessages)
            ELSE selectedMessages

\* A variant that walks the history oldest first.
selectContextMessages_OldestFirst(ctx, userId, remaining) ==
    IF remaining <= 0 THEN <<>>
    ELSE LET NotTrigger(msg) == msg.id # userId
         IN SelectLoop(SelectSeq(ctx, NotTrigger), remaining, 0, <<>>)

selectContextMessages(ctx, userId, remaining) ==
    IF remaining <= 0 THEN <<>>
    ELSE LET NotTrigger(msg) == msg.id # userId
             messages == Reverse(SelectSeq(ctx, NotTrigger))
         IN SelectLoop(messages, remaining, 0, <<>>)

MaxContinues == 2      \* continue requests for the paused message

\* No continue request is under way.
NoContinue == [req |-> [r \in 1..MaxContinues |-> "none"], toolCalls |-> 0]

\* No prompt is being formatted.
NoFormat ==
    [pc |-> "idle", vision |-> FALSE, imageFiles |-> 0, enriched |-> FALSE,
     formatted |-> <<>>, merged |-> <<>>]

MaxBusEvents == 3     \* response events emitted on the event bus

\* No event has been emitted on the bus.
NoBus ==
    [emitted |-> 0, events |-> <<>>, handler |-> [i \in 1..MaxBusEvents |-> "none"],
     firstTokenTime |-> FALSE, reasoningStartTime |-> FALSE, content |-> <<>>]

MaxStarts == 3        \* assistant messages created for generation
MaxStartEvents == 1   \* response events of one stream

\* No generation has been requested: generatingMessages is empty.
NoStart ==
    [map |-> <<>>,
     req |-> [i \in 1..MaxStarts |-> [pc |-> "none", conversationId |-> "", drives |-> 0]],
     applied |-> [i \in 1..MaxStarts |-> 0]]

\* clearAllMessages has not been called.
NoClear == [pc |-> "idle", conv |-> "", active |-> ""]

MaxRequests == 2      \* calls of sendMessage, retryMessage and continueStream

\* The chat store with nothing generating and no call made.  The assistant
\* message of call r has id r.
NoStore ==
    [generatingThreadIds |-> {}, generatingMessagesCache |-> {},
     req |-> [r \in 1..MaxRequests |-> [op |-> "", pc |-> "none", threadId |-> ""]]]

MaxMirrorEvents == 3  \* response events applied on both sides

\* No event has been applied on either side.
NoMirror == [n |-> 0, presenter |-> <<>>, renderer |-> <<>>]

MaxChunks == 4        \* chunks of one backend stream

\* openAIStreamCompletion has not been called.
NoAdapter ==
    [pc |-> "idle", chunks |-> <<>>, out |-> <<>>, initialBuffer |-> <<>>, buffer |-> <<>>,
     hasCheckedFirstChunk |-> FALSE, hasReasoningContent |-> FALSE, isInThinkTag |-> FALSE]

\* The flows of the later sections at rest, but for the one named.
LaterIdleExcept(flow) ==
    /\ flow = "bus" \/ bus = NoBus
    /\ flow = "starts" \/ starts = NoStart
    /\ flow = "clear" \/ clear = NoClear
    /\ flow = "store" \/ store = NoStore
    /\ flow = "mirror" \/ mirror = NoMirror
    /\ flow = "adapter" \/ adapter = NoAdapter

LaterIdle == LaterIdleExcept("none")

BudgetInputs ==
    /\ fmt = NoFormat
    /\ cont = NoContinue
    /\ LaterIdle
    /\ contextMessages \in Histories
    /\ userMessageId \in 0..Len(contextMessages)
    /\ contextLength \in ContextLengths
    /\ searchPromptLen \in SearchPromptLens
    /\ systemPromptLen \in SystemPromptLens
    /\ userContentLen \in UserContentLens
    /\ selectedContextMessages = <<>>
    /\ bpc = "input"

preparePromptContent ==
    /\ bpc = "input"
    /\ selectedContextMessages' =
           selectContextMessages(contextMessages, userMessageId, remainingContextLength)
    /\ bpc' = "built"
    /\ UNCHANGED <<contextMessages, userMessageId, contextLength, searchPromptLen,
                   systemPromptLen, userContentLen>>
    /\ UNCHANGED <<generatingMessages, content, isCancelled, isSearching, firstTokenTime,
                   reasoningStartTime, totalUsage, promptTokens, dbContent, dbStatus,
                   dbMeta, pc, cur, lastIdx, nEvents, emits, last, run, reportedUsage, lifeVars>>
    /\ UNCHANGED otherFlows

RECURSIVE SumTokens(_)
SumTokens(s) == IF s = <<>> THEN 0 ELSE msgTokens(Head(s)) + SumTokens(Tail(s))

\* The history without the triggering user message, oldest first.
HistoryOf(ctx, userId) == LET NotTrigger(msg) == msg.id # userId IN SelectSeq(ctx, NotTrigger)

LastK(s, k) == SubSeq(s, Len(s) - k + 1, Len(s))


(***************************************************************************)
(* Entries sent to the backend: formatMessagesForCompletion and            *)
(* mergeConsecutiveMessages.  A text is a sequence of atoms <<tag, n>>:    *)
(* the system prompt, the search prompt, the user content, the URL         *)
(* enrichment, the text of history message n, a line feed.  The content of *)
(* an entry is a string (text) or an array of text and image_url items.    *)
(***************************************************************************)
MaxFormatted == 2      \* history messages handed to the prompt builder

NL == <<"nl", 0>>
SystemPrompt == <<"system", 0>>
SearchPrompt == <<"search", 0>>
UserContent == <<"user", 0>>
Enrichment == <<"enriched", 0>>

MessageText(id) == <<"message", id>>
MessageImage(id) == <<"image", id>>
FileImage(k) == <<"file", k>>
NoUrl == <<"none", 0>>

\* String.prototype.trim on a text: line feeds at both ends go.
RECURSIVE trimStart(_)
trimStart(t) == IF t # <<>> /\ Head(t) = NL THEN trimStart(Tail(t)) ELSE t

RECURSIVE trimEnd(_)
trimEnd(t) == IF t # <<>> /\ t[Len(t)] = NL THEN trimEnd(SubSeq(t, 1, Len(t) - 1)) ELSE t

trimText(t) == trimEnd(trimStart(t))

StringEntry(role, t) == [role |-> role, array |-> FALSE, text |-> t, items |-> <<>>]
ArrayEntry(role, items) == [role |-> role, array |-> TRUE, text |-> <<>>, items |-> items]
TextItem(t) == [type |-> "text", text |-> t, url |-> NoUrl]
ImageItem(u) == [type |-> "image_url", text |-> <<>>, url |-> u]

\* What a history message holds: a user text; an assistant message with a
\* content block, with an image block and a content block, with an image
\* block only, or with a reasoning block only.
\* Each message is 600 characters long.
MessageKinds == {"user", "text", "imagetext", "image", "reasoning"}

FormatHistories ==
    {[i \in 1..Len(ks) |-> [id |-> i, len |-> 600, kind |-> ks[i]]] :
        ks \in SeqsUpTo(MessageKinds, MaxFormatted)}

\* The blocks of type content or tool_call, joined; the image blocks.
textContent(msg) == IF msg.kind \in {"text", "imagetext"} THEN <<MessageText(msg.id)>> ELSE <<>>
imageBlocks(msg) ==
    IF msg.kind \in {"image", "imagetext"} THEN <<ImageItem(MessageImage(msg.id))>> ELSE <<>>

\* The entry (or none) that addContextMessages pushes for one message.
ContextEntry(msg, vision) ==
    IF msg.kind = "user" THEN <<StringEntry("user", <<MessageText(msg.id)>>)>>
    ELSE IF textContent(msg) = <<>> /\ imageBlocks(msg) = <<>> THEN <<>>
    ELSE IF vision /\ imageBlocks(msg) # <<>>
    THEN <<ArrayEntry("assistant",
                      imageBlocks(msg) \o
                      (IF textContent(msg) # <<>> THEN <<TextItem(textContent(msg))>>
                       ELSE <<>>))>>
    ELSE <<StringEntry("assistant", textContent(msg))>>

RECURSIVE ContextEntries(_, _)
ContextEntries(ctx, vision) ==
    IF ctx = <<>> THEN <<>>
    ELSE ContextEntry(Head(ctx), vision) \o ContextEntries(Tail(ctx), vision)

\* addContextMessages returns a copy of the entries it was given followed by
\* the entries of the context messages.
addContextMessages(formattedMessages, ctx, vision) ==
    formattedMessages \o ContextEntries(ctx, vision)

addImageFiles(finalContent, imageFiles) ==
    ArrayEntry("user",
               [k \in 1..imageFiles |-> ImageItem(FileImage(k))] \o
               <<TextItem(trimText(finalContent))>>)

formatMessagesForCompletion(ctx, systemPrompt, searchPrompt, userContent, enrichedUserMessage, imageFiles, vision) ==
    LET system == IF systemPrompt # <<>> THEN <<StringEntry("system", systemPrompt)>>
                  ELSE <<>>
        pushed == system \o addContextMessages(system, ctx, vision)
        finalContent == (IF searchPrompt # <<>> THEN searchPrompt ELSE userContent)
                        \o enrichedUserMessage
    IN Append(pushed,
              IF vision /\ imageFiles > 0 THEN addImageFiles(finalContent, imageFiles)
              ELSE StringEntry("user", trimText(finalContent)))

IsText(item) == item.type = "text"
IsNotText(item) == item.type # "text"

\* texts.join('\n')
RECURSIVE JoinLines(_)
JoinLines(texts) ==
    IF texts = <<>> THEN <<>>
    ELSE IF Len(texts) = 1 THEN texts[1]
    ELSE texts[1] \o <<NL>> \o JoinLines(Tail(texts))

TextsOf(items) == LET ts == SelectSeq(items, IsText) IN [i \in 1..Len(ts) |-> ts[i].text]

\* A variant that keeps the content of the later entry only.
mergeMessageContent_KeepCurrent(current, previous) == current

mergeMessageContent(current, previous) ==
    IF current.array
    THEN IF previous.array
         THEN [current EXCEPT
                  !.items = SelectSeq(previous.items, IsNotText) \o
                            <<TextItem(JoinLines(TextsOf(previous.items)) \o <<NL>> \o
                                       JoinLines(TextsOf(current.items)))>> \o
                            SelectSeq(current.items, IsNotText)]
         ELSE [current EXCEPT
                  !.items = <<TextItem(previous.text \o <<NL>> \o JoinLines(TextsOf(current.items)))>> \o
                            SelectSeq(current.items, IsNotText)]
    ELSE IF previous.array
         THEN [previous EXCEPT
                  !.items = SelectSeq(previous.items, IsNotText) \o
                            <<TextItem(JoinLines(TextsOf(previous.items)) \o <<NL>> \o current.text)>>]
         ELSE [previous EXCEPT !.text = previous.text \o <<NL>> \o current.text]

RECURSIVE MergeLoop(_, _)
MergeLoop(messages, mergedMessages) ==
    IF messages = <<>> THEN mergedMessages
    ELSE LET currentMessage == Head(messages)
             n == Len(mergedMessages)
         IN IF n > 0 /\ mergedMessages[n].role = currentMessage.role
            THEN MergeLoop(Tail(messages),
                           [mergedMessages EXCEPT
                               ![n] = mergeMessageContent(currentMessage, mergedMessages[n])])
            ELSE MergeLoop(Tail(messages), Append(mergedMessages, currentMessage))

mergeConsecutiveMessages(messages) == MergeLoop(messages, <<>>)

(***************************************************************************)
(* Content blocks and stream events.                                       *)
(***************************************************************************)
Msg == "m1"     \* id of the assistant message under generation

NonTerminal == {"loading", "optimizing", "reading"}

NonTerminalBlocks(bs) == {i \in 1..Len(bs) : bs[i].status \in NonTerminal}

Block(type, status, text) ==
    [type |-> type, status |-> status, content |-> text,
     id |-> "", name |-> "", response |-> "", total |-> 0, needContinue |-> FALSE]

NoUsage == [set |-> FALSE, prompt_tokens |-> 0, completion_tokens |-> 0]
Usage(p, c) == [set |-> TRUE, prompt_tokens |-> p, completion_tokens |-> c]

\* LLMAgentEventData of a response event.  webpages is the number of
\* application/deepchat-webpage resources in tool_call_response_raw.
NoEvent ==
    [content |-> "", reasoning_content |-> "", tool_call |-> "",
     tool_call_id |-> "", tool_call_name |-> "", tool_call_response |-> "",
     maximum_tool_calls_reached |-> FALSE, image_data |-> FALSE,
     totalUsage |-> NoUsage, webpages |-> 0]

ContentDelta(t) == [NoEvent EXCEPT !.content = t]
ReasoningDelta(t) == [NoEvent EXCEPT !.reasoning_content = t]
BothDelta(t, r) == [NoEvent EXCEPT !.content = t, !.reasoning_content = r]
ToolEvent(kind, id, name, resp) ==
    [NoEvent EXCEPT !.tool_call = kind, !.tool_call_id = id, !.tool_call_name = name,
                    !.tool_call_response = resp]
ImageEvent == [NoEvent EXCEPT !.image_data = TRUE]
LimitEvent(id, name) ==
    [NoEvent EXCEPT !.maximum_tool_calls_reached = TRUE, !.tool_call_id = id,
                    !.tool_call_name = name]
UsageEvent(p, c) == [NoEvent EXCEPT !.totalUsage = Usage(p, c)]

\* Tool calls T1 and T2 share the tool name, T3 has a name of its own.
ToolName(id) == IF id = "T3" THEN "fetch" ELSE "search"
ToolIds == {"T1", "T2", "T3"}

StreamEvents ==
    {ContentDelta("a"), ContentDelta("b"), ReasoningDelta("r"), BothDelta("a", "r"),
     ImageEvent, LimitEvent("T1", ToolName("T1")), UsageEvent(40, 7)}
    \cup {ToolEvent("start", id, ToolName(id), "") : id \in ToolIds}
    \cup {ToolEvent("end", id, ToolName(id), "res-" \o id) : id \in ToolIds}
    \cup {ToolEvent("error", "T1", ToolName("T1"), "err-T1"),
          [ToolEvent("end", "T1", ToolName("T1"), "res-T1") EXCEPT !.webpages = 1]}

\* Events of the life-cycle specification: a smaller alphabet. The usage
\* totals are cumulative, so the n-th event of a stream reports more
\* completion tokens than the ones before it.
LifeEvents(n) ==
    {ContentDelta("a"), ReasoningDelta("r"), UsageEvent(40, 7 + n),
     ToolEvent("start", "T1", ToolName("T1"), ""),
     [ToolEvent("end", "T1", ToolName("T1"), "res-T1") EXCEPT !.webpages = 1]}

(***************************************************************************)
(* Stream event processor: the block mutations of handleLLMAgentResponse.  *)
(* lastBlock is held by reference in the source; li is its index in the    *)
(* list (0 when the list was empty).                                       *)
(***************************************************************************)
CloseAt(bs, li) == IF li = 0 THEN bs ELSE [bs EXCEPT ![li].status = "success"]

\* maximum_tool_calls_reached: close the last block, push the action block.
LimitPart(bs, ev) ==
    Append(CloseAt(bs, Len(bs)),
           [Block("action", "success", "common.error.maximumToolCallsReached")
                EXCEPT !.id = ev.tool_call_id, !.name = ev.tool_call_name,
                       !.needContinue = TRUE])

\* Search results carried by the raw response of a tool call that ended.
HasSearchResults(ev) == ev.webpages > 0 /\ ev.tool_call = "end"

SearchPart_AlwaysUnshift(bs, ev) ==
    IF ~HasSearchResults(ev) THEN bs
    ELSE <<[Block("search", "success", "") EXCEPT !.total = ev.webpages]>> \o bs

SearchPart(bs, ev) ==
    IF ~HasSearchResults(ev) THEN bs
    ELSE IF Len(bs) > 0 /\ bs[1].type = "search"
         THEN [bs EXCEPT ![1].status = "success", ![1].total = @ + ev.webpages]
         ELSE <<[Block("search", "success", "") EXCEPT !.total = ev.webpages]>> \o bs

\* Index of lastBlock after SearchPart may have put a block in front of it.
ShiftedLast(bs, b1, li) == IF li = 0 THEN 0 ELSE li + (Len(b1) - Len(bs))

\* content.find(...): the first loading tool_call block matching by id or name.
ToolMatches(b, ev) ==
    /\ b.type = "tool_call"
    /\ \/ (ev.tool_call_id # "" /\ b.id = ev.tool_call_id)
       \/ b.name = ev.tool_call_name
    /\ b.status = "loading"

FindToolCallBlock(bs, ev) ==
    LET hits == {i \in 1..Len(bs) : ToolMatches(bs[i], ev)}
    IN IF hits = {} THEN 0 ELSE CHOOSE i \in hits : \A j \in hits : i <= j

ToolResponse(ev) ==
    IF ev.tool_call = "error" /\ ev.tool_call_response = "" THEN "failed"
    ELSE ev.tool_call_response

\* A variant that marks the last block as failed when no block matches.
ToolPart_NoMatchFails(bs, li, ev) ==
    IF ev.tool_call \in {"end", "error"} /\ FindToolCallBlock(bs, ev) = 0 /\ Len(bs) > 0
    THEN [bs EXCEPT ![Len(bs)].status = "error"]
    ELSE bs

ToolPart(bs, li, ev) ==
    IF ev.tool_call = "start"
    THEN Append(CloseAt(bs, li),
                [Block("tool_call", "loading", "")
                    EXCEPT !.id = ev.tool_call_id, !.name = ev.tool_call_name])
    ELSE IF ev.tool_call \in {"end", "error"}
    THEN LET i == FindToolCallBlock(bs, ev)
         IN IF i = 0 THEN bs
            ELSE [bs EXCEPT ![i].status = IF ev.tool_call = "error" THEN "error" ELSE "success",
                            ![i].response = ToolResponse(ev)]
    ELSE bs

ImagePart(bs, li, ev) == Append(CloseAt(bs, li), Block("image", "success", "image"))

\* A variant that opens a new block for every content delta.
ContentPart_AlwaysPush(bs, li, ev) ==
    Append(CloseAt(bs, li), Block("content", "loading", ev.content))

ContentPart(bs, li, ev) ==
    IF li > 0 /\ bs[li].type = "content"
    THEN [bs EXCEPT ![li].content = @ \o ev.content]
    ELSE Append(CloseAt(bs, li), Block("content", "loading", ev.content))

\* if (tool_call) ... else if (image_data) ... else if (content) ...
MainPart(bs, li, ev) ==
    IF ev.tool_call # "" THEN ToolPart(bs, li, ev)
    ELSE IF ev.image_data THEN ImagePart(bs, li, ev)
    ELSE IF ev.content # "" THEN ContentPart(bs, li, ev)
    ELSE bs

\* if (reasoning_content) ...: tested against the lastBlock captured before
\* MainPart ran.
ReasoningPart(bs, li, ev) ==
    IF ev.reasoning_content = "" THEN bs
    ELSE IF li > 0 /\ bs[li].type = "reasoning_content"
         THEN [bs EXCEPT ![li].content = @ \o ev.reasoning_content]
         ELSE Append(CloseAt(bs, li), Block("reasoning_content", "loading", ev.reasoning_content))

\* The run of consecutive deltas of one kind that the handled events form.
NoRun == [kind |-> "none", text |-> "", opened |-> FALSE, idx |-> 0, len |-> 0]

DeltaKind(ev) ==
    IF ev.tool_call # "" \/ ev.image_data \/ ev.maximum_tool_calls_reached \/ ev.totalUsage.set
    THEN "none"
    ELSE IF ev.content # "" /\ ev.reasoning_content = "" THEN "content"
    ELSE IF ev.reasoning_content # "" /\ ev.content = "" THEN "reasoning_content"
    ELSE "none"

NextRun(ev, before, after) ==
    LET k == DeltaKind(ev)
        payload == IF k = "content" THEN ev.content ELSE ev.reasoning_content
    IN IF k = "none" THEN NoRun
       ELSE IF run.kind = k THEN [run EXCEPT !.text = @ \o payload]
       ELSE [kind |-> k, text |-> payload, opened |-> Len(after) > Len(before),
             idx |-> Len(after), len |-> Len(after)]


(***************************************************************************)
(* handleLLMAgentResponse, split at its awaits.                            *)
(***************************************************************************)
\* From "const lastBlock = ..." when no search results arrived: the block
\* mutations and the final editMessage.
ResponseMutate(ev) ==
    LET b2 == MainPart(content, Len(content), ev)
        b3 == ReasoningPart(b2, Len(content), ev)
    IN /\ content' = b3
       /\ dbContent' = b3
       /\ run' = NextRun(ev, content, b3)
       /\ last' = ev
       /\ pc' = "stream"
       /\ cur' = NoEvent
       /\ lastIdx' = 0
       /\ emits' = emits + 1

\* Search results arrived: the search block is updated, the attachments and
\* the content are written, and the handler awaits with lastBlock in hand.
ResponseSearch(ev) ==
    LET b1 == SearchPart(content, ev)
    IN /\ content' = b1
       /\ dbContent' = b1
       /\ run' = NoRun
       /\ last' = last
       /\ pc' = "resp_tool"
       /\ cur' = ev
       /\ UNCHANGED emits
       /\ lastIdx' = ShiftedLast(content, b1, Len(content))

\* From the reasoning timestamps on.
ResponseReasoning(ev) ==
    IF ev.reasoning_content # "" /\ ~reasoningStartTime
    THEN /\ reasoningStartTime' = TRUE
         /\ pc' = "resp_mutate"
         /\ cur' = ev
         /\ UNCHANGED <<content, dbContent, run, last, lastIdx, emits>>
    ELSE /\ UNCHANGED reasoningStartTime
         /\ IF HasSearchResults(ev) THEN ResponseSearch(ev) ELSE ResponseMutate(ev)

\* From "if (totalUsage)" on.
ResponseUsage(ev) ==
    /\ totalUsage' = IF ev.totalUsage.set THEN ev.totalUsage ELSE totalUsage
    /\ promptTokens' = IF ev.totalUsage.set THEN ev.totalUsage.prompt_tokens ELSE promptTokens
    /\ IF ev.maximum_tool_calls_reached
       THEN /\ content' = LimitPart(content, ev)
            /\ dbContent' = content'
            /\ run' = NoRun
            /\ last' = ev
            /\ pc' = "stream"
            /\ cur' = NoEvent
            /\ UNCHANGED <<reasoningStartTime, lastIdx, emits>>
       ELSE ResponseReasoning(ev)

\* Positions at which a response handler is suspended at one of its awaits.
HandlerSuspended == {"resp_usage", "resp_mutate", "resp_tool"}

LoopTakesNext_NoAwait(at) == at \in {"stream"} \cup HandlerSuspended

\* The for-await loop awaits the handler of an event before it takes the next
\* event of the stream.
LoopTakesNext(at) == at = "stream"

\* A response event arrives in the for-await loop.
handleLLMAgentResponse(ev) ==
    /\ LoopTakesNext(pc)
    /\ nEvents' = nEvents + 1
    /\ IF Msg \notin generatingMessages
       THEN /\ emits' = emits + 1
            /\ UNCHANGED <<content, dbContent, run, last, pc, cur, lastIdx, firstTokenTime,
                           reasoningStartTime, totalUsage, promptTokens>>
       ELSE IF ~firstTokenTime /\ (ev.content # "" \/ ev.reasoning_content # "")
       THEN /\ firstTokenTime' = TRUE
            /\ pc' = "resp_usage"
            /\ cur' = ev
            /\ UNCHANGED <<content, dbContent, run, last, lastIdx, reasoningStartTime,
                           totalUsage, promptTokens, emits>>
       ELSE /\ UNCHANGED firstTokenTime
            /\ ResponseUsage(ev)
    /\ reportedUsage' = IF Msg \in generatingMessages /\ ev.totalUsage.set
                        THEN ev.totalUsage ELSE reportedUsage
    /\ UNCHANGED <<otherFlows, budgetVars, generatingMessages, isCancelled, isSearching,
                   dbStatus, dbMeta,
                   lifeVars>>

\* The first-token metadata write has returned.
ResponseAfterFirstToken ==
    /\ pc = "resp_usage"
    /\ ResponseUsage(cur)
    /\ UNCHANGED <<otherFlows, budgetVars, generatingMessages, isCancelled, isSearching,
                   firstTokenTime,
                   dbStatus, dbMeta, nEvents, reportedUsage, lifeVars>>

\* The reasoning-start metadata write has returned.
ResponseAfterReasoningStart ==
    /\ pc = "resp_mutate"
    /\ IF HasSearchResults(cur) THEN ResponseSearch(cur) ELSE ResponseMutate(cur)
    /\ UNCHANGED <<otherFlows, budgetVars, generatingMessages, stateVars, dbStatus, dbMeta, nEvents,
                   reportedUsage, lifeVars>>

\* The attachment writes and the editMessage of the search results have
\* returned: the tool call and reasoning parts run on the captured lastBlock.
ResponseAfterSearch ==
    /\ pc = "resp_tool"
    /\ LET b2 == MainPart(content, lastIdx, cur)
           b3 == ReasoningPart(b2, lastIdx, cur)
       IN /\ content' = b3
          /\ dbContent' = b3
    /\ run' = NoRun
    /\ last' = cur
    /\ pc' = "stream"
    /\ cur' = NoEvent
    /\ lastIdx' = 0
    /\ emits' = emits + 1
    /\ UNCHANGED <<otherFlows, budgetVars, generatingMessages, stateVars, dbStatus, dbMeta, nEvents,
                   reportedUsage, lifeVars>>

generationVars ==
    <<budgetVars, generatingMessages, content, stateVars, dbVars, pc, cur, lastIdx,
      nEvents, emits, last, run, reportedUsage, lifeVars, engineCall>>

vars == <<generationVars, recoveryVars, multiVars, sideVars>>

\* Texts are sequences of characters. The user query starts with a blank, so
\* that a trimmed copy of it is not the query itself.
UserQuery == <<" ", "u">>
Completions == {<<>>, <<" ">>, <<" ", "k", " ">>}

\* How the rewrite can end: the conversation is not found, the completion
\* request throws, or it returns a text.
RewriteOutcomes ==
    {[kind |-> k, text |-> <<>>] : k \in {"noConversation", "throws"}}
    \cup {[kind |-> "text", text |-> t] : t \in Completions}

NoCall == [rewrite |-> [kind |-> "none", text |-> <<>>], query |-> <<>>]

RECURSIVE TrimStart(_)
TrimStart(t) == IF t # <<>> /\ Head(t) = " " THEN TrimStart(Tail(t)) ELSE t

RECURSIVE TrimEnd(_)
TrimEnd(t) ==
    IF t # <<>> /\ t[Len(t)] = " " THEN TrimEnd(SubSeq(t, 1, Len(t) - 1)) ELSE t

trim(t) == TrimEnd(TrimStart(t))

\* A variant that hands back the trimmed completion even when it is empty.
rewriteUserSearchQuery_NoFallback(query, r) ==
    IF r.kind = "text" THEN trim(r.text) ELSE query

\* rewriteUserSearchQuery with the .catch of its caller: the trimmed
\* completion, or the query itself when there is none.
rewriteUserSearchQuery(query, r) ==
    IF r.kind \in {"noConversation", "throws"} THEN query
    ELSE IF trim(r.text) = <<>> THEN query ELSE trim(r.text)

\* searchResults is null until a search has returned.
NoResults == -1

NoMeta == [finalized |-> FALSE, totalTokens |-> 0, inputTokens |-> 0, outputTokens |-> 0]

\* The prompt builder at rest (specifications that are not about it).
PromptIdle ==
    /\ fmt = NoFormat
    /\ cont = NoContinue
    /\ contextMessages = <<>>
    /\ userMessageId = 0
    /\ contextLength = 0
    /\ searchPromptLen = 0
    /\ systemPromptLen = 0
    /\ userContentLen = 0
    /\ selectedContextMessages = <<>>
    /\ bpc = "idle"

BudgetIdle == PromptIdle /\ LaterIdle

\* A generation at rest (specifications that are not about it).
GenerationIdle ==
    /\ generatingMessages = {}
    /\ content = <<>>
    /\ isCancelled = FALSE
    /\ isSearching = FALSE
    /\ firstTokenTime = FALSE
    /\ reasoningStartTime = FALSE
    /\ totalUsage = NoUsage
    /\ promptTokens = 0
    /\ dbContent = <<>>
    /\ dbStatus = "none"
    /\ dbMeta = NoMeta
    /\ pc = "none"
    /\ cur = NoEvent
    /\ lastIdx = 0
    /\ nEvents = 0
    /\ emits = 0
    /\ last = NoEvent
    /\ run = NoRun

\* No stop request, search or error handling under way.
LifeIdle ==
    /\ results = 0
    /\ engineCall = NoCall
    /\ searchErr = ""
    /\ searchResults = NoResults
    /\ hmeContent = <<>>
    /\ hmeMsg = ""
    /\ hmeRet = ""
    /\ endTokens = 0
    /\ userStop = FALSE
    /\ surfaced = "none"
    /\ errored = "none"
    /\ stopPc = [p \in StopPositions |-> IF p = "idle" THEN MaxStops ELSE 0]
    /\ stopStreamCalled = FALSE
    /\ stopSearchCalled = FALSE
    /\ cancels = 0
    /\ closedAt = {}
    /\ cancelAt = {}
    /\ reportedUsage = NoUsage

(***************************************************************************)
(* Life cycle of one generation.                                           *)
(***************************************************************************)
\* isMessageCancelled: the state is gone from the map or carries the flag.
isMessageCancelled == Msg \notin generatingMessages \/ isCancelled

NoModelResponse == "common.error.noModelResponse"
UserCanceled == "common.error.userCanceledGeneration"
NotFound == "Error: message not found"
SearchFailed == "Error: search failed"
BackendError == "backend error"

\* generateAIResponse: the assistant message is inserted with empty content
\* and its generating state is put in the map; when the triggering message
\* or the conversation is not found it throws before either.
generateAIResponse(found) ==
    /\ pc = "none"
    /\ IF found
       THEN /\ pc' = "created"
            /\ generatingMessages' = generatingMessages \cup {Msg}
            /\ content' = <<>>
            /\ isCancelled' = FALSE
            /\ isSearching' = FALSE
            /\ firstTokenTime' = FALSE
            /\ reasoningStartTime' = FALSE
            /\ totalUsage' = NoUsage
            /\ promptTokens' = 0
            /\ dbContent' = <<>>
            /\ dbStatus' = "pending"
            /\ dbMeta' = NoMeta
       ELSE /\ pc' = "rejected"
            /\ UNCHANGED <<generatingMessages, content, stateVars, dbVars>>
    /\ UNCHANGED <<otherFlows, budgetVars, cur, lastIdx, nEvents, emits, last, run, reportedUsage, lifeVars>>

\* startStreamCompletion up to the await of prepareConversationContext.
startStreamCompletion ==
    /\ pc = "created"
    /\ IF Msg \notin generatingMessages
       THEN pc' = "returned" /\ UNCHANGED isCancelled
       ELSE pc' = "ctx" /\ isCancelled' = FALSE
    /\ UNCHANGED <<otherFlows, budgetVars, generatingMessages, content, isSearching, firstTokenTime,
                   reasoningStartTime, totalUsage, promptTokens, dbVars, cur, lastIdx,
                   nEvents, emits, last, run, reportedUsage, lifeVars>>

\* The catch block of startStreamCompletion for an error that is not a
\* cancellation: handleMessageError is called and reads the stored message.
CatchError(msg) ==
    /\ pc' = "hme_read"
    /\ hmeContent' = dbContent
    /\ hmeMsg' = msg
    /\ hmeRet' = "throw"

\* handleMessageError on the stored content: loading blocks become error
\* and an error block with the message is pushed.
MarkedContent(bs, msg) ==
    Append([i \in 1..Len(bs) |->
               IF bs[i].status = "loading" THEN [bs[i] EXCEPT !.status = "error"] ELSE bs[i]],
           Block("error", "error", msg))

\* handleMessageError after getMessage: updateMessageStatus('error').
HandleMessageErrorStatus ==
    /\ pc = "hme_read"
    /\ hmeContent' = MarkedContent(hmeContent, hmeMsg)
    /\ dbStatus' = "error"
    /\ pc' = "hme_status"
    /\ UNCHANGED <<otherFlows, budgetVars, generatingMessages, content, stateVars, dbContent,
                   dbMeta,
                   cur, lastIdx, nEvents, emits, last, run, reportedUsage>>
    /\ UNCHANGED <<stopVars, streamOpened, searchEnabled, results, searchErr, searchResults,
                   hmeMsg, hmeRet,
                   surfaced, errored, histVars, endVars>>

\* handleMessageError: editMessage with the marked content.
HandleMessageErrorEdit ==
    /\ pc = "hme_status"
    /\ dbContent' = hmeContent
    /\ pc' = "hme_edit"
    /\ UNCHANGED <<otherFlows, budgetVars, generatingMessages, content, stateVars, dbStatus, dbMeta,
                   cur, lastIdx, nEvents, emits, last, run, reportedUsage, lifeVars>>

\* A variant that keeps the state in the map.
StatesAfterError_Kept(gm) == gm

\* handleLLMAgentError: generatingMessages.delete(eventId).
StatesAfterError(gm) == gm \ {Msg}

\* handleMessageError has returned: startStreamCompletion rethrows to its
\* caller (the state stays in the map); handleLLMAgentError deletes the
\* state and emits STREAM_EVENTS.ERROR.
HandleMessageErrorReturn ==
    /\ pc = "hme_edit"
    /\ IF hmeRet = "throw"
       THEN /\ pc' = "failed"
            /\ surfaced' = "rejected"
            /\ errored' = "preparing"
            /\ UNCHANGED generatingMessages
       ELSE /\ pc' = "stream"
            /\ surfaced' = "event"
            /\ errored' = "backend"
            /\ generatingMessages' = StatesAfterError(generatingMessages)
    /\ UNCHANGED <<otherFlows, budgetVars, content, stateVars, dbVars, cur, lastIdx, nEvents, emits,
                   last, run,
                   reportedUsage>>
    /\ UNCHANGED <<stopVars, streamOpened, searchEnabled, results, searchErr, searchResults,
                   hmeContent,
                   hmeMsg, hmeRet, histVars, endVars>>

\* preparePromptContent and updateGenerationState: the state is put back in
\* the map with firstTokenTime reset, and the metadata write is awaited.
PreparePrompt ==
    /\ pc' = "gen_state"
    /\ generatingMessages' = generatingMessages \cup {Msg}
    /\ firstTokenTime' = FALSE
    /\ promptTokens' = 10

\* startStreamSearch up to its first await: the loading search block is put
\* in front and the content is written.
SearchStart ==
    /\ content' = <<[Block("search", "loading", "") EXCEPT !.total = 0]>> \o content
    /\ dbContent' = content'
    /\ pc' = "s_edit0"
    /\ closedAt' = {i + 1 : i \in closedAt}
    /\ cancelAt' = {i + 1 : i \in cancelAt}

\* prepareConversationContext has returned or thrown.
AfterPrepareContext ==
    /\ pc = "ctx"
    /\ \/ /\ CatchError(NotFound)
          /\ UNCHANGED <<generatingMessages, content, dbContent, firstTokenTime, promptTokens,
                         closedAt, cancelAt>>
       \/ /\ isMessageCancelled
          /\ pc' = "returned"
          /\ UNCHANGED <<generatingMessages, content, dbContent, firstTokenTime, promptTokens,
                         closedAt, cancelAt, hmeContent, hmeMsg, hmeRet>>
       \/ /\ ~isMessageCancelled
          /\ searchEnabled
          /\ SearchStart
          /\ UNCHANGED <<generatingMessages, firstTokenTime, promptTokens,
                         hmeContent, hmeMsg, hmeRet>>
       \/ /\ ~isMessageCancelled
          /\ ~searchEnabled
          /\ PreparePrompt
          /\ UNCHANGED <<content, dbContent, closedAt, cancelAt, hmeContent, hmeMsg, hmeRet>>
    /\ UNCHANGED <<otherFlows, budgetVars, isCancelled, isSearching, reasoningStartTime, totalUsage,
                   dbStatus, dbMeta, cur, lastIdx, nEvents, emits, last, run, reportedUsage>>
    /\ UNCHANGED <<stopVars, streamOpened, searchEnabled, results, searchErr, searchResults,
                   surfaced,
                   errored, cancels, endVars>>

\* The catch block of startStreamSearch: the search block (the first block)
\* is marked error with the error text and the content is written.
SearchCatch(kind) ==
    /\ isSearching' = FALSE
    /\ content' = [content EXCEPT ![1].status = "error",
                                  ![1].content = IF kind = "cancel" THEN UserCanceled
                                                 ELSE SearchFailed]
    /\ dbContent' = content'
    /\ searchErr' = kind
    /\ pc' = "s_catch"

searchFrame ==
    /\ UNCHANGED searchResults
    /\ UNCHANGED <<idleFlows, budgetVars, generatingMessages, isCancelled, firstTokenTime,
                   reasoningStartTime, totalUsage, promptTokens, dbStatus, dbMeta, cur,
                   lastIdx, nEvents, emits, last, run, reportedUsage>>
    /\ UNCHANGED <<stopStreamCalled, stopPc, streamOpened, searchEnabled, hmeContent, hmeMsg,
                   hmeRet, surfaced, errored, histVars, endVars>>

\* The first editMessage has returned: the message is marked as searching
\* and the context messages are fetched.
SearchMarkSearching ==
    /\ pc = "s_edit0"
    /\ isSearching' = TRUE
    /\ pc' = "s_ctx"
    /\ UNCHANGED <<content, dbContent, results, searchErr, searchResults, stopSearchCalled,
                   engineCall>>
    /\ searchFrame

\* getContextMessages has returned: optimizing, then the query rewrite.
SearchOptimize ==
    /\ pc = "s_ctx"
    /\ IF isMessageCancelled
       THEN SearchCatch("cancel")
       ELSE /\ content' = [content EXCEPT ![1].status = "optimizing"]
            /\ dbContent' = content'
            /\ pc' = "s_rewrite"
            /\ UNCHANGED <<isSearching, searchErr>>
    /\ UNCHANGED <<results, stopSearchCalled, engineCall>>
    /\ searchFrame

\* The rewrite has ended with outcome r: reading, then the search engine is
\* called with the query that rewriteUserSearchQuery handed back.
SearchRead(r) ==
    /\ pc = "s_rewrite"
    /\ IF isMessageCancelled
       THEN /\ SearchCatch("cancel")
            /\ UNCHANGED engineCall
       ELSE /\ content' = [content EXCEPT ![1].status = "reading"]
            /\ dbContent' = content'
            /\ pc' = "s_search"
            /\ engineCall' = [rewrite |-> r, query |-> rewriteUserSearchQuery(UserQuery, r)]
            /\ UNCHANGED <<isSearching, searchErr>>
    /\ UNCHANGED <<results, stopSearchCalled>>
    /\ searchFrame

\* The search engine call has returned n results or failed.
SearchResults(n, failed) ==
    /\ pc = "s_search"
    /\ engineCall' = NoCall
    /\ IF failed THEN /\ SearchCatch("fail")
                      /\ UNCHANGED results
       ELSE IF isMessageCancelled
       THEN /\ SearchCatch("cancel")
            /\ UNCHANGED results
       ELSE /\ content' = [content EXCEPT ![1].status = "loading", ![1].total = n]
            /\ dbContent' = content'
            /\ results' = n
            /\ pc' = "s_attach"
            /\ UNCHANGED <<isSearching, searchErr>>
    /\ UNCHANGED stopSearchCalled
    /\ searchFrame

\* One turn of the loop that stores the results, then the success write.
SearchAttach ==
    /\ pc = "s_attach"
    /\ IF isMessageCancelled
       THEN /\ SearchCatch("cancel")
            /\ UNCHANGED results
       ELSE IF results > 0
       THEN /\ results' = results - 1
            /\ UNCHANGED <<content, dbContent, pc, isSearching, searchErr>>
       ELSE /\ content' = [content EXCEPT ![1].status = "success"]
            /\ dbContent' = content'
            /\ pc' = "s_done"
            /\ UNCHANGED <<results, isSearching, searchErr>>
    /\ UNCHANGED <<stopSearchCalled, engineCall>>
    /\ searchFrame

\* What startStreamSearch returns: the results it found, or the empty list
\* from its catch block.
\* A variant whose catch block hands back a result.
ReturnedResults_Stale(at, bs) == IF at = "s_done" THEN bs[1].total ELSE 1

ReturnedResults(at, bs) == IF at = "s_done" THEN bs[1].total ELSE 0

\* startStreamSearch has returned to startStreamCompletion, which checks the
\* cancellation, builds the prompt (which may fail) and updates the state.
AfterSearch ==
    /\ pc \in {"s_done", "s_catch"}
    /\ isSearching' = FALSE
    /\ stopSearchCalled' = (stopSearchCalled \/ (pc = "s_catch" /\ searchErr = "cancel"))
    /\ searchResults' = ReturnedResults(pc, content)
    /\ \/ /\ isMessageCancelled
          /\ pc' = "returned"
          /\ UNCHANGED <<generatingMessages, firstTokenTime, promptTokens, hmeContent, hmeMsg,
                         hmeRet>>
       \/ /\ ~isMessageCancelled
          /\ PreparePrompt
          /\ UNCHANGED <<hmeContent, hmeMsg, hmeRet>>
       \/ /\ ~isMessageCancelled
          /\ CatchError("Error: prompt")
          /\ UNCHANGED <<generatingMessages, firstTokenTime, promptTokens>>
    /\ UNCHANGED <<otherFlows, budgetVars, content, isCancelled, reasoningStartTime,
                   totalUsage, dbVars,
                   cur, lastIdx, nEvents, emits, last, run, reportedUsage>>
    /\ UNCHANGED <<stopStreamCalled, stopPc, streamOpened, searchEnabled, results, searchErr,
                   surfaced, errored, histVars, endVars>>

\* The metadata write of updateGenerationState has returned: last check,
\* then the backend stream is opened.
OpenStream ==
    /\ pc = "gen_state"
    /\ IF isMessageCancelled
       THEN pc' = "returned" /\ UNCHANGED streamOpened
       ELSE pc' = "stream" /\ streamOpened' = TRUE
    /\ UNCHANGED <<otherFlows, budgetVars, generatingMessages, content, stateVars, dbVars,
                   cur, lastIdx,
                   nEvents, emits, last, run, reportedUsage>>
    /\ UNCHANGED <<stopVars, searchEnabled, results, searchErr, searchResults, hmeContent,
                   hmeMsg, hmeRet,
                   surfaced, errored, histVars, endVars>>

(***************************************************************************)
(* handleLLMAgentEnd, split at its awaits.                                 *)
(***************************************************************************)
AllSuccess(bs) == [i \in 1..Len(bs) |-> [bs[i] EXCEPT !.status = "success"]]

RECURSIVE EstimateTokens(_)
EstimateTokens(bs) ==
    IF bs = <<>> THEN 0
    ELSE (IF Head(bs).type \in {"content", "reasoning_content", "tool_call"}
          THEN approximateTokenSize(Head(bs).content) ELSE 0) + EstimateTokens(Tail(bs))

\* A variant that always estimates locally.
completionTokens_LocalOnly(usage, bs) == EstimateTokens(bs)

completionTokens(usage, bs) ==
    IF usage.set THEN usage.completion_tokens ELSE EstimateTokens(bs)

\* A variant that finds a content block in every message.
hasContentBlock_Always(bs) == TRUE

hasContentBlock(bs) ==
    \E i \in 1..Len(bs) : bs[i].type \in {"content", "reasoning_content", "tool_call", "image"}

\* The end event arrives: blocks are closed, the tokens are computed, the
\* "no model response" block is added if need be; updateMessageMetadata
\* reads the message.
handleLLMAgentEnd(stop) ==
    /\ pc = "stream"
    /\ stop => stopStreamCalled
    /\ userStop' = stop
    /\ IF Msg \notin generatingMessages
       THEN /\ pc' = "done"
            /\ UNCHANGED <<content, endTokens>>
       ELSE /\ pc' = "end_meta"
            /\ endTokens' = completionTokens(totalUsage, content)
            /\ content' = IF ~hasContentBlock(content) /\ ~stop
                          THEN Append(AllSuccess(content), Block("error", "error", NoModelResponse))
                          ELSE AllSuccess(content)
    /\ run' = NoRun
    /\ UNCHANGED <<otherFlows, budgetVars, generatingMessages, stateVars, dbVars, cur,
                   lastIdx, nEvents, emits,
                   last, reportedUsage>>
    /\ UNCHANGED <<stopVars, streamOpened, searchEnabled, results, searchErr, searchResults,
                   hmeContent,
                   hmeMsg, hmeRet, surfaced, errored, histVars>>

endFrame ==
    /\ UNCHANGED <<otherFlows, budgetVars, content, stateVars, cur, lastIdx, nEvents, emits, last, run,
                   reportedUsage, lifeVars>>

\* updateMessageMetadata writes the metadata.
EndMetadata ==
    /\ pc = "end_meta"
    /\ dbMeta' = [finalized |-> TRUE, totalTokens |-> promptTokens + endTokens,
                  inputTokens |-> promptTokens, outputTokens |-> endTokens]
    /\ pc' = "end_status"
    /\ UNCHANGED <<generatingMessages, dbContent, dbStatus>>
    /\ endFrame

\* updateMessageStatus(eventId, 'sent').
EndStatus ==
    /\ pc = "end_status"
    /\ dbStatus' = "sent"
    /\ pc' = "end_edit"
    /\ UNCHANGED <<generatingMessages, dbContent, dbMeta>>
    /\ endFrame

\* editMessage with the content as it is now.
EndEdit ==
    /\ pc = "end_edit"
    /\ dbContent' = content
    /\ pc' = "end_delete"
    /\ UNCHANGED <<generatingMessages, dbStatus, dbMeta>>
    /\ endFrame

\* The state is deleted and STREAM_EVENTS.END is emitted.
EndDelete ==
    /\ pc = "end_delete"
    /\ generatingMessages' = generatingMessages \ {Msg}
    /\ pc' = "done"
    /\ UNCHANGED dbVars
    /\ endFrame

(***************************************************************************)
(* handleLLMAgentError: an error event of the backend stream.              *)
(***************************************************************************)
handleLLMAgentError ==
    /\ pc = "stream"
    /\ errored = "none"
    /\ IF Msg \notin generatingMessages
       THEN /\ errored' = "late"
            /\ surfaced' = "event"
            /\ UNCHANGED <<pc, hmeContent, hmeMsg, hmeRet>>
       ELSE /\ pc' = "hme_read"
            /\ hmeContent' = dbContent
            /\ hmeMsg' = BackendError
            /\ hmeRet' = "event"
            /\ UNCHANGED <<errored, surfaced>>
    /\ UNCHANGED <<otherFlows, budgetVars, generatingMessages, content, stateVars, dbVars,
                   cur, lastIdx,
                   nEvents, emits, last, run, reportedUsage>>
    /\ UNCHANGED <<stopVars, streamOpened, searchEnabled, results, searchErr, searchResults, histVars, endVars>>

(***************************************************************************)
(* stopMessageGeneration, split at its awaits.                             *)
(***************************************************************************)
CloseNonTerminal_EveryBlock(bs) ==
    [i \in 1..Len(bs) |-> [bs[i] EXCEPT !.status = "success"]]

CloseNonTerminal(bs) ==
    [i \in 1..Len(bs) |->
        IF bs[i].status \in NonTerminal THEN [bs[i] EXCEPT !.status = "success"] ELSE bs[i]]

CancelBlock == Block("error", "cancel", UserCanceled)

\* Non-terminal blocks are closed, the cancel block is pushed and
\* updateMessageStatus(messageId, 'error') is called.
StopClose(from) ==
    /\ content' = Append(CloseNonTerminal(content), CancelBlock)
    /\ dbStatus' = "error"
    /\ stopPc' = StopMove(from, "status")
    /\ closedAt' = closedAt \cup NonTerminalBlocks(content)
    /\ cancelAt' = cancelAt \cup {Len(content) + 1}
    /\ cancels' = cancels + 1
    /\ run' = NoRun

stopFrame ==
    /\ UNCHANGED <<otherFlows, budgetVars, isSearching, firstTokenTime, reasoningStartTime,
                   totalUsage,
                   promptTokens, dbMeta, pc, cur, lastIdx, nEvents, emits, last, reportedUsage>>
    /\ UNCHANGED <<streamOpened, searchEnabled, results, searchErr, searchResults, hmeContent,
                   hmeMsg, hmeRet,
                   surfaced, errored, endTokens, userStop>>

\* A stop request for the message arrives.
stopMessageGeneration ==
    /\ stopPc["idle"] > 0
    /\ pc # "none"
    /\ IF Msg \notin generatingMessages
       THEN /\ stopPc' = StopMove("idle", "noop")
            /\ UNCHANGED <<content, dbStatus, closedAt, cancelAt, cancels, run, isCancelled,
                           stopSearchCalled>>
       ELSE /\ isCancelled' = TRUE
            /\ IF isSearching
               THEN /\ stopSearchCalled' = TRUE
                    /\ stopPc' = StopMove("idle", "search")
                    /\ UNCHANGED <<content, dbStatus, closedAt, cancelAt, cancels, run>>
               ELSE /\ StopClose("idle")
                    /\ UNCHANGED stopSearchCalled
    /\ UNCHANGED <<generatingMessages, dbContent, stopStreamCalled>>
    /\ stopFrame

\* stopSearch has returned.
StopAfterSearch ==
    /\ stopPc["search"] > 0
    /\ StopClose("search")
    /\ UNCHANGED <<generatingMessages, isCancelled, dbContent, stopStreamCalled,
                   stopSearchCalled>>
    /\ stopFrame

\* editMessage with the content as it is now.
StopEdit ==
    /\ stopPc["status"] > 0
    /\ dbContent' = content
    /\ stopPc' = StopMove("status", "edit")
    /\ UNCHANGED <<generatingMessages, content, isCancelled, dbStatus, stopStreamCalled,
                   stopSearchCalled, run, histVars, endVars>>
    /\ stopFrame

\* llmProviderPresenter.stopStream(messageId).
StopStream ==
    /\ stopPc["edit"] > 0
    /\ stopStreamCalled' = TRUE
    /\ stopPc' = StopMove("edit", "stream")
    /\ UNCHANGED <<generatingMessages, content, isCancelled, dbStatus, dbContent,
                   stopSearchCalled, run, histVars, endVars>>
    /\ stopFrame

\* The state is deleted from the map.
StopDelete ==
    /\ stopPc["stream"] > 0
    /\ generatingMessages' = generatingMessages \ {Msg}
    /\ stopPc' = StopMove("stream", "done")
    /\ UNCHANGED <<content, isCancelled, dbStatus, dbContent, stopStreamCalled,
                   stopSearchCalled, run, histVars, endVars>>
    /\ stopFrame

(***************************************************************************)
(* Startup recovery: initializeUnfinishedMessages, called (and not awaited) *)
(* by the constructor, walks the first page of conversations and the first *)
(* page of each one's thread and hands every pending assistant message to  *)
(* handleMessageError.                                                     *)
(***************************************************************************)
MaxThread == 2         \* messages shown of one conversation's thread

ConvIds == {"c1", "c2"}

SessionInterrupted == "common.error.sessionInterrupted"

\* What a process lifetime can leave of a message.  `left` keeps the status
\* it was left in.
StoredMessage(role, status, bs) ==
    [role |-> role, status |-> status, left |-> status, content |-> bs]

LeftMessages ==
    {StoredMessage("user", "sent", <<>>),
     StoredMessage("user", "pending", <<>>),
     StoredMessage("assistant", "sent", <<Block("content", "success", "a")>>),
     StoredMessage("assistant", "pending", <<Block("content", "loading", "a")>>)}

\* A conversation: whether getConversationList(1, 1000) returns it, its
\* thread in creation order, and how many of the messages shown here
\* getMessages(id, 1, 1000) returns (a thread longer than the page keeps its
\* newest messages out of it).
LeftConversations ==
    {[listed |-> l, thread |-> t, paged |-> k] :
        l \in BOOLEAN, t \in SeqsUpTo(LeftMessages, MaxThread), k \in 0..MaxThread}

NoRecovery == [pc |-> "idle", convs |-> <<>>, conv |-> "", pending |-> <<>>, content |-> <<>>]

\* No recovery under way (specifications that are not about it).
RecoveryIdle ==
    /\ conversations = [c \in ConvIds |-> [listed |-> TRUE, thread |-> <<>>, paged |-> 0]]
    /\ recovery = NoRecovery

RECURSIVE SetToSeq(_)
SetToSeq(S) == IF S = {} THEN <<>>
               ELSE LET x == CHOOSE y \in S : TRUE IN <<x>> \o SetToSeq(S \ {x})

\* messages.filter(role === 'assistant' && status === 'pending') on the page
\* that getMessages returns, in thread order.
pendingMessages(conv) ==
    LET OnPage(i) == /\ i <= conv.paged
                     /\ conv.thread[i].role = "assistant"
                     /\ conv.thread[i].status = "pending"
    IN SelectSeq([i \in 1..Len(conv.thread) |-> i], OnPage)

recoveryFrame == UNCHANGED <<generationVars, multiVars, sideVars>>

\* initializeUnfinishedMessages up to the await of getConversationList.
initializeUnfinishedMessages ==
    /\ recovery.pc = "start"
    /\ recovery' = [recovery EXCEPT
                       !.pc = "convs",
                       !.convs = SetToSeq({c \in ConvIds : conversations[c].listed})]
    /\ UNCHANGED conversations
    /\ recoveryFrame

\* The next turn of the loop over the conversations: getMessages and the
\* filter, or the end of the loop.
RecoveryGetMessages ==
    /\ recovery.pc = "convs"
    /\ IF recovery.convs = <<>>
       THEN recovery' = [recovery EXCEPT !.pc = "done"]
       ELSE recovery' = [recovery EXCEPT
                            !.pc = "msgs",
                            !.conv = Head(recovery.convs),
                            !.convs = Tail(recovery.convs),
                            !.pending = pendingMessages(conversations[Head(recovery.convs)])]
    /\ UNCHANGED conversations
    /\ recoveryFrame

\* The next turn of the loop over the pending messages: handleMessageError
\* reads the message (getMessage), or the loop ends.
RecoveryHandle ==
    /\ recovery.pc = "msgs"
    /\ IF recovery.pending = <<>>
       THEN recovery' = [recovery EXCEPT !.pc = "convs"]
       ELSE recovery' = [recovery EXCEPT
                            !.pc = "read",
                            !.content =
                                conversations[recovery.conv].thread[Head(recovery.pending)].content]
    /\ UNCHANGED conversations
    /\ recoveryFrame

\* handleMessageError after getMessage: the content is marked and
\* updateMessageStatus('error') is called.
RecoveryStatus ==
    /\ recovery.pc = "read"
    /\ recovery' = [recovery EXCEPT
                       !.pc = "status",
                       !.content = MarkedContent(recovery.content, SessionInterrupted)]
    /\ conversations' = [conversations EXCEPT
                            ![recovery.conv].thread[Head(recovery.pending)].status = "error"]
    /\ recoveryFrame

\* handleMessageError: editMessage with the marked content; it returns to
\* the loop.
RecoveryEdit ==
    /\ recovery.pc = "status"
    /\ recovery' = [recovery EXCEPT !.pc = "msgs", !.pending = Tail(recovery.pending)]
    /\ conversations' = [conversations EXCEPT
                            ![recovery.conv].thread[Head(recovery.pending)].content =
                                recovery.content]
    /\ recoveryFrame

(***************************************************************************)
(* Several generations at once.  Every handler looks its state up in the   *)
(* generatingMessages map by the message id of its event and writes the    *)
(* stored message of that id; stopConversationGeneration starts            *)
(* stopMessageGeneration for every state of the conversation.  The         *)
(* generations are taken while their backend streams are open.             *)
(***************************************************************************)
MaxMultiEvents == 1    \* response events handled for one of several generations

MsgIds == {"m1", "m2"}

\* A variant that takes the first state of the map.
StateKey_First(m) == "m1"

\* this.generatingMessages.get(eventId)
StateKey(m) == m

NoConvStop == [pc |-> "idle", conv |-> "", ids |-> {}]

\* No generation of this kind (specifications that are not about them).
MultiIdle ==
    /\ states = [m \in MsgIds |->
                    [active |-> FALSE, conversationId |-> "", content |-> <<>>,
                     isCancelled |-> FALSE, firstTokenTime |-> FALSE]]
    /\ rows = [m \in MsgIds |-> [content |-> <<>>, status |-> "none"]]
    /\ flows = [m \in MsgIds |->
                   [pc |-> "none", stop |-> "idle", nEvents |-> 0,
                    stopStreamCalled |-> FALSE, hme |-> <<>>]]
    /\ convStop = NoConvStop

multiFrame == UNCHANGED <<generationVars, recoveryVars, sideVars>>

\* The block mutations of a content delta and the editMessage that follows.
MultiMutate(m) ==
    LET k == StateKey(m)
        bs == MainPart(states[k].content, Len(states[k].content), ContentDelta("a"))
    IN /\ states' = [states EXCEPT ![k].content = bs]
       /\ rows' = [rows EXCEPT ![m].content = bs]

\* handleLLMAgentResponse for an event of message m: up to the first-token
\* metadata write, or through the mutations when the first token is past.
MultiResponse(m) ==
    /\ flows[m].pc = "stream"
    /\ flows[m].nEvents < MaxMultiEvents
    /\ LET k == StateKey(m)
       IN IF ~states[k].active
          THEN UNCHANGED <<states, rows, flows>>
          ELSE IF ~states[k].firstTokenTime
          THEN /\ states' = [states EXCEPT ![k].firstTokenTime = TRUE]
               /\ flows' = [flows EXCEPT ![m].nEvents = @ + 1, ![m].pc = "resp_first"]
               /\ UNCHANGED rows
          ELSE /\ MultiMutate(m)
               /\ flows' = [flows EXCEPT ![m].nEvents = @ + 1]
    /\ UNCHANGED convStop
    /\ multiFrame

\* The first-token metadata write has returned.
MultiResponseAfterFirstToken(m) ==
    /\ flows[m].pc = "resp_first"
    /\ MultiMutate(m)
    /\ flows' = [flows EXCEPT ![m].pc = "stream"]
    /\ UNCHANGED convStop
    /\ multiFrame

\* handleLLMAgentEnd for message m up to updateMessageMetadata.
MultiEnd(m, stop) ==
    /\ flows[m].pc = "stream"
    /\ stop => flows[m].stopStreamCalled
    /\ LET k == StateKey(m)
           bs == AllSuccess(states[k].content)
       IN IF ~states[k].active
          THEN /\ flows' = [flows EXCEPT ![m].pc = "done"]
               /\ UNCHANGED states
          ELSE /\ flows' = [flows EXCEPT ![m].pc = "end_status"]
               /\ states' = [states EXCEPT ![k].content =
                                IF ~hasContentBlock(bs) /\ ~stop
                                THEN Append(bs, Block("error", "error", NoModelResponse))
                                ELSE bs]
    /\ UNCHANGED <<rows, convStop>>
    /\ multiFrame

\* updateMessageStatus(eventId, 'sent').
MultiEndStatus(m) ==
    /\ flows[m].pc = "end_status"
    /\ rows' = [rows EXCEPT ![m].status = "sent"]
    /\ flows' = [flows EXCEPT ![m].pc = "end_edit"]
    /\ UNCHANGED <<states, convStop>>
    /\ multiFrame

\* editMessage with the content as it is now.
MultiEndEdit(m) ==
    /\ flows[m].pc = "end_edit"
    /\ rows' = [rows EXCEPT ![m].content = states[StateKey(m)].content]
    /\ flows' = [flows EXCEPT ![m].pc = "end_delete"]
    /\ UNCHANGED <<states, convStop>>
    /\ multiFrame

\* generatingMessages.delete(eventId) and STREAM_EVENTS.END.
MultiEndDelete(m) ==
    /\ flows[m].pc = "end_delete"
    /\ states' = [states EXCEPT ![m].active = FALSE]
    /\ flows' = [flows EXCEPT ![m].pc = "done"]
    /\ UNCHANGED <<rows, convStop>>
    /\ multiFrame

\* handleLLMAgentError for message m up to the getMessage of
\* handleMessageError.
MultiError(m) ==
    /\ flows[m].pc = "stream"
    /\ IF ~states[StateKey(m)].active
       THEN UNCHANGED flows
       ELSE flows' = [flows EXCEPT ![m].pc = "hme_read", ![m].hme = rows[m].content]
    /\ UNCHANGED <<states, rows, convStop>>
    /\ multiFrame

\* handleMessageError: the content read is marked and
\* updateMessageStatus('error') is called.
MultiErrorStatus(m) ==
    /\ flows[m].pc = "hme_read"
    /\ rows' = [rows EXCEPT ![m].status = "error"]
    /\ flows' = [flows EXCEPT ![m].pc = "hme_status",
                              ![m].hme = MarkedContent(@, BackendError)]
    /\ UNCHANGED <<states, convStop>>
    /\ multiFrame

\* handleMessageError: editMessage with the marked content.
MultiErrorEdit(m) ==
    /\ flows[m].pc = "hme_status"
    /\ rows' = [rows EXCEPT ![m].content = flows[m].hme]
    /\ flows' = [flows EXCEPT ![m].pc = "hme_edit"]
    /\ UNCHANGED <<states, convStop>>
    /\ multiFrame

\* handleLLMAgentError: the state is deleted and STREAM_EVENTS.ERROR emitted.
MultiErrorReturn(m) ==
    /\ flows[m].pc = "hme_edit"
    /\ states' = [states EXCEPT ![m].active = FALSE]
    /\ flows' = [flows EXCEPT ![m].pc = "stream"]
    /\ UNCHANGED <<rows, convStop>>
    /\ multiFrame

\* stopMessageGeneration up to its first await, for the messages of ids whose
\* state is in the map: the flag is set, the open blocks are closed, the
\* cancel block is pushed and updateMessageStatus('error') is called.
StopBegin(ids) ==
    /\ states' = [m \in MsgIds |->
                     IF m \in ids /\ states[StateKey(m)].active
                     THEN [states[m] EXCEPT
                              !.isCancelled = TRUE,
                              !.content = Append(CloseNonTerminal(@), CancelBlock)]
                     ELSE states[m]]
    /\ rows' = [m \in MsgIds |->
                   IF m \in ids /\ states[StateKey(m)].active
                   THEN [rows[m] EXCEPT !.status = "error"]
                   ELSE rows[m]]
    /\ flows' = [m \in MsgIds |->
                    IF m \in ids
                    THEN [flows[m] EXCEPT !.stop = IF states[StateKey(m)].active
                                                   THEN "status" ELSE "noop"]
                    ELSE flows[m]]

\* stopMessageGeneration(m) is called.
MultiStop(m) ==
    /\ flows[m].stop = "idle"
    /\ StopBegin({m})
    /\ UNCHANGED convStop
    /\ multiFrame

\* editMessage with the content as it is now.
MultiStopEdit(m) ==
    /\ flows[m].stop = "status"
    /\ rows' = [rows EXCEPT ![m].content = states[StateKey(m)].content]
    /\ flows' = [flows EXCEPT ![m].stop = "edit"]
    /\ UNCHANGED <<states, convStop>>
    /\ multiFrame

\* llmProviderPresenter.stopStream(messageId).
MultiStopStream(m) ==
    /\ flows[m].stop = "edit"
    /\ flows' = [flows EXCEPT ![m].stop = "stream", ![m].stopStreamCalled = TRUE]
    /\ UNCHANGED <<states, rows, convStop>>
    /\ multiFrame

\* generatingMessages.delete(messageId): the stop call has returned.
MultiStopDelete(m) ==
    /\ flows[m].stop = "stream"
    /\ states' = [states EXCEPT ![m].active = FALSE]
    /\ flows' = [flows EXCEPT ![m].stop = "done"]
    /\ UNCHANGED <<rows, convStop>>
    /\ multiFrame

\* stopConversationGeneration(c): the ids of the states of c are collected
\* and stopMessageGeneration is started for each (Promise.all over the map).
stopConversationGeneration(c) ==
    /\ convStop.pc = "idle"
    /\ LET ids == {m \in MsgIds : states[m].active /\ states[m].conversationId = c}
       IN /\ \A m \in ids : flows[m].stop = "idle"
          /\ convStop' = [pc |-> "called", conv |-> c, ids |-> ids]
          /\ StopBegin(ids)
    /\ multiFrame

\* Every stopMessageGeneration of the call has returned: Promise.all resolves.
ConvStopReturn ==
    /\ convStop.pc = "called"
    /\ \A m \in convStop.ids : flows[m].stop \in {"done", "noop"}
    /\ convStop' = NoConvStop
    /\ UNCHANGED <<states, rows, flows>>
    /\ multiFrame

(***************************************************************************)
(* Specification of the generation life cycle: one generation, from the    *)
(* insertion of the assistant message to its end, with stop requests       *)
(* arriving at any time.                                                   *)
(***************************************************************************)
MaxResults == 1        \* results of one web search

Init ==
    /\ RecoveryIdle
    /\ MultiIdle
    /\ BudgetIdle
    /\ GenerationIdle
    /\ LifeIdle
    /\ streamOpened = FALSE
    /\ searchEnabled \in BOOLEAN

LifeResponse ==
    \E ev \in LifeEvents(nEvents) : nEvents < MaxEvents /\ handleLLMAgentResponse(ev)

Next ==
    \/ \E found \in BOOLEAN : generateAIResponse(found)
    \/ startStreamCompletion
    \/ AfterPrepareContext
    \/ SearchMarkSearching
    \/ SearchOptimize
    \/ \E r \in RewriteOutcomes : SearchRead(r)
    \/ \E n \in 0..MaxResults, failed \in BOOLEAN : SearchResults(n, failed)
    \/ SearchAttach
    \/ AfterSearch
    \/ OpenStream
    \/ LifeResponse
    \/ ResponseAfterFirstToken
    \/ ResponseAfterReasoningStart
    \/ ResponseAfterSearch
    \/ \E stop \in BOOLEAN : handleLLMAgentEnd(stop)
    \/ EndMetadata
    \/ EndStatus
    \/ EndEdit
    \/ EndDelete
    \/ handleLLMAgentError
    \/ HandleMessageErrorStatus
    \/ HandleMessageErrorEdit
    \/ HandleMessageErrorReturn
    \/ stopMessageGeneration
    \/ StopAfterSearch
    \/ StopEdit
    \/ StopStream
    \/ StopDelete

Spec == Init /\ [][Next]_vars

(***************************************************************************)
(* Specification of the prompt builder: any history, any budget.           *)
(***************************************************************************)
BudgetInit ==
    /\ RecoveryIdle
    /\ MultiIdle
    /\ BudgetInputs
    /\ GenerationIdle
    /\ LifeIdle
    /\ searchEnabled = FALSE
    /\ streamOpened = FALSE

SpecBudget == BudgetInit /\ [][preparePromptContent]_vars

(***************************************************************************)
(* Specification of the entries sent to the backend: the prompt builder on *)
(* a history of messages of every kind, from the selection to the merge.   *)
(***************************************************************************)
\* preparePromptContent from "const formattedMessages = ..." on.
FormatMessages ==
    /\ bpc = "built"
    /\ fmt.pc = "input"
    /\ fmt' = [fmt EXCEPT
                  !.pc = "formatted",
                  !.formatted =
                      formatMessagesForCompletion(
                          selectedContextMessages,
                          IF systemPromptLen > 0 THEN <<SystemPrompt>> ELSE <<>>,
                          IF searchPromptLen > 0 THEN <<SearchPrompt>> ELSE <<>>,
                          <<UserContent>>,
                          IF fmt.enriched THEN <<NL, NL, Enrichment>> ELSE <<>>,
                          fmt.imageFiles, fmt.vision)]
    /\ UNCHANGED <<generationVars, recoveryVars, multiVars, cont, laterVars>>

\* preparePromptContent from "const mergedMessages = ..." on.
MergeMessages ==
    /\ fmt.pc = "formatted"
    /\ fmt' = [fmt EXCEPT !.pc = "merged",
                          !.merged = mergeConsecutiveMessages(fmt.formatted)]
    /\ UNCHANGED <<generationVars, recoveryVars, multiVars, cont, laterVars>>

FormatContextLengths == {0, 50, 160, 1000}

FormatInit ==
    /\ RecoveryIdle
    /\ MultiIdle
    /\ GenerationIdle
    /\ LifeIdle
    /\ searchEnabled = FALSE
    /\ streamOpened = FALSE
    /\ contextMessages \in FormatHistories
    /\ userMessageId \in 0..Len(contextMessages)
    /\ contextLength \in FormatContextLengths
    /\ searchPromptLen \in SearchPromptLens
    /\ systemPromptLen \in SystemPromptLens
    /\ userContentLen \in {200}
    /\ cont = NoContinue
    /\ LaterIdle
    /\ selectedContextMessages = <<>>
    /\ bpc = "input"
    /\ \E v \in BOOLEAN, n \in 0..1, e \in BOOLEAN :
           fmt = [NoFormat EXCEPT !.pc = "input", !.vision = v, !.imageFiles = n,
                                  !.enriched = e]

FormatNext ==
    \/ preparePromptContent
    \/ FormatMessages
    \/ MergeMessages

SpecFormat == FormatInit /\ [][FormatNext]_vars

(***************************************************************************)
(* continueStreamCompletion(conversationId, queryMsgId) for the message    *)
(* under generation, split at its awaits.  It works on the stored message: *)
(* the in-memory block list of the message is not touched.                 *)
(***************************************************************************)
ActionBlocks(bs) == {i \in 1..Len(bs) : bs[i].type = "action"}

\* content.filter((block) => block.type === 'action').pop()
LastActionBlock(bs) ==
    IF ActionBlocks(bs) = {} THEN 0
    ELSE CHOOSE i \in ActionBlocks(bs) : \A j \in ActionBlocks(bs) : j <= i

continueFrame ==
    /\ UNCHANGED <<recoveryVars, multiVars, fmt, laterVars, budgetVars, generatingMessages, content,
                   isSearching, firstTokenTime, reasoningStartTime, totalUsage, promptTokens,
                   dbStatus, dbMeta, pc, cur, lastIdx, nEvents, emits, last, run, reportedUsage,
                   lifeVars, engineCall>>

\* A continue request arrives: findGeneratingState takes the first state of
\* the conversation in the map, which is the state of the message when it
\* is still there and else the state of the new assistant message, if any;
\* its cancellation flag is reset and the stored message is fetched.
continueStreamCompletion(r, found) ==
    /\ cont.req[r] = "ready"
    /\ IF Msg \in generatingMessages
       THEN /\ isCancelled' = FALSE
            /\ cont' = [cont EXCEPT !.req[r] = "read"]
       ELSE /\ UNCHANGED isCancelled
            /\ cont' = [cont EXCEPT !.req[r] = IF found THEN "read" ELSE "returned"]
    /\ UNCHANGED dbContent
    /\ continueFrame

\* getMessage has returned: without an action block the request fails; with
\* one its needContinue is set to false and the content is written.
ContinueRead(r) ==
    /\ cont.req[r] = "read"
    /\ LET i == LastActionBlock(dbContent)
       IN IF i = 0
          THEN /\ cont' = [cont EXCEPT !.req[r] = "failed"]
               /\ UNCHANGED dbContent
          ELSE /\ dbContent' = [dbContent EXCEPT ![i].needContinue = FALSE]
               /\ cont' = [cont EXCEPT !.req[r] = "edit"]
    /\ UNCHANGED isCancelled
    /\ continueFrame

\* editMessage has returned: mcpPresenter.callTool with the pending tool call.
ContinueCallTool(r) ==
    /\ cont.req[r] = "edit"
    /\ cont' = [cont EXCEPT !.req[r] = "tool", !.toolCalls = @ + 1]
    /\ UNCHANGED <<isCancelled, dbContent>>
    /\ continueFrame

\* callTool has returned: the context is prepared and the stream of the new
\* assistant message is opened, which is not followed here.
ContinueAfterTool(r) ==
    /\ cont.req[r] = "tool"
    /\ cont' = [cont EXCEPT !.req[r] = "resumed"]
    /\ UNCHANGED <<isCancelled, dbContent>>
    /\ continueFrame

(***************************************************************************)
(* Specification of the tool call limit pause: a stream that may report    *)
(* the limit once and ends, and continue requests for its message.         *)
(***************************************************************************)
PauseEvents ==
    {ContentDelta("a")} \cup
    (IF ActionBlocks(content) = {} THEN {LimitEvent("T1", ToolName("T1"))} ELSE {})

PauseInit ==
    /\ RecoveryIdle
    /\ MultiIdle
    /\ LifeIdle
    /\ fmt = NoFormat
    /\ LaterIdle
    /\ contextMessages = <<>>
    /\ userMessageId = 0
    /\ contextLength = 0
    /\ searchPromptLen = 0
    /\ systemPromptLen = 0
    /\ userContentLen = 0
    /\ selectedContextMessages = <<>>
    /\ bpc = "idle"
    /\ cont = [NoContinue EXCEPT !.req = [r \in 1..MaxContinues |-> "ready"]]
    /\ searchEnabled = FALSE
    /\ streamOpened = TRUE
    /\ generatingMessages = {Msg}
    /\ content = <<>>
    /\ isCancelled = FALSE
    /\ isSearching = FALSE
    /\ firstTokenTime = FALSE
    /\ reasoningStartTime = FALSE
    /\ totalUsage = NoUsage
    /\ promptTokens = 10
    /\ dbContent = <<>>
    /\ dbStatus = "pending"
    /\ dbMeta = NoMeta
    /\ pc = "stream"
    /\ cur = NoEvent
    /\ lastIdx = 0
    /\ nEvents = 0
    /\ emits = 0
    /\ last = NoEvent
    /\ run = NoRun

PauseResponse == \E ev \in PauseEvents : nEvents < MaxEvents /\ handleLLMAgentResponse(ev)

PauseNext ==
    \/ PauseResponse
    \/ ResponseAfterFirstToken
    \/ handleLLMAgentEnd(FALSE)
    \/ EndMetadata
    \/ EndStatus
    \/ EndEdit
    \/ EndDelete
    \/ \E r \in 1..MaxContinues, found \in BOOLEAN : continueStreamCompletion(r, found)
    \/ \E r \in 1..MaxContinues : ContinueRead(r)
    \/ \E r \in 1..MaxContinues : ContinueCallTool(r)
    \/ \E r \in 1..MaxContinues : ContinueAfterTool(r)

SpecPause == PauseInit /\ [][PauseNext]_vars

\* Everything at rest, but for the one flow named.
AtRest(flow) ==
    /\ PromptIdle
    /\ RecoveryIdle
    /\ MultiIdle
    /\ GenerationIdle
    /\ LifeIdle
    /\ searchEnabled = FALSE
    /\ streamOpened = FALSE
    /\ LaterIdleExcept(flow)

(***************************************************************************)
(* The event-bus variant of the orchestrator: the constructor registers an *)
(* async handler of STREAM_EVENTS.RESPONSE.  emit calls it and goes on as  *)
(* soon as the handler reaches its first await, so the handlers of several *)
(* events of one message can be under way together.  Event i carries the   *)
(* text ToString(i).                                                       *)
(***************************************************************************)
BusEvents(i) ==
    {ContentDelta(ToString(i)), ReasoningDelta(ToString(i)),
     BothDelta(ToString(i), ToString(i))}

busFrame == UNCHANGED <<generationVars, recoveryVars, multiVars, fmt, cont, starts, clear, store, mirror, adapter>>

\* From "const lastBlock = ..." to the end of the handler.
BusAppend(bs, ev) ==
    LET li == Len(bs)
    IN ReasoningPart(IF ev.content # "" THEN ContentPart(bs, li, ev) ELSE bs, li, ev)

\* The handler of event i from "if (reasoning_content)" on: it awaits the
\* reasoningStartTime write, or appends at once.
BusAfterFirstToken(b, i) ==
    IF b.events[i].reasoning_content # "" /\ ~b.reasoningStartTime
    THEN [b EXCEPT !.reasoningStartTime = TRUE, !.handler[i] = "reasoningStart"]
    ELSE [b EXCEPT !.content = BusAppend(@, b.events[i]), !.handler[i] = "done"]

\* eventBus.emit(STREAM_EVENTS.RESPONSE, msg): the handler runs up to its
\* first await.
BusEmit(ev) ==
    /\ bus.emitted < MaxBusEvents
    /\ LET i == bus.emitted + 1
           b == [bus EXCEPT !.emitted = i, !.events = Append(@, ev)]
       IN bus' = IF ~b.firstTokenTime
                 THEN [b EXCEPT !.firstTokenTime = TRUE, !.handler[i] = "firstToken"]
                 ELSE BusAfterFirstToken(b, i)
    /\ busFrame

\* The firstTokenTime write of handler i has returned.
BusFirstTokenWritten(i) ==
    /\ bus.handler[i] = "firstToken"
    /\ bus' = BusAfterFirstToken(bus, i)
    /\ busFrame

\* The reasoningStartTime write of handler i has returned.
BusReasoningStartWritten(i) ==
    /\ bus.handler[i] = "reasoningStart"
    /\ bus' = [bus EXCEPT !.content = BusAppend(@, bus.events[i]), !.handler[i] = "done"]
    /\ busFrame

BusInit == AtRest("bus") /\ bus = NoBus

BusEmitNext == \E ev \in BusEvents(bus.emitted + 1) : BusEmit(ev)

BusNext ==
    \/ BusEmitNext
    \/ \E i \in 1..MaxBusEvents : BusFirstTokenWritten(i)
    \/ \E i \in 1..MaxBusEvents : BusReasoningStartWritten(i)

SpecBus == BusInit /\ [][BusNext]_vars

(***************************************************************************)
(* Generations started for conversations: generateAIResponse and           *)
(* retryMessage put the state of a new assistant message i in              *)
(* generatingMessages (a Map: insertion order), and the caller then asks   *)
(* startStreamCompletion(conversationId, ...) to drive it.                 *)
(***************************************************************************)
startFrame == UNCHANGED <<generationVars, recoveryVars, multiVars, fmt, cont, bus, clear, store, mirror, adapter>>

\* Array.from(this.generatingMessages.values()).find(
\*     (state) => state.conversationId === conversationId) || null
\* The id of the state found, 0 for null.
findGeneratingState(map, conversationId) ==
    LET hits == {k \in 1..Len(map) : map[k].conversationId = conversationId}
    IN IF hits = {} THEN 0
       ELSE map[CHOOSE k \in hits : \A h \in hits : k <= h].id

Created == {i \in 1..MaxStarts : starts.req[i].pc # "none"}

\* generateAIResponse / retryMessage: this.generatingMessages.set(id, {...}).
CreateGeneration(c) ==
    /\ Cardinality(Created) < MaxStarts
    /\ LET i == Cardinality(Created) + 1
       IN starts' = [starts EXCEPT
                        !.map = Append(@, [id |-> i, conversationId |-> c]),
                        !.req[i] = [pc |-> "created", conversationId |-> c, drives |-> 0]]
    /\ startFrame

\* startStreamCompletion(conversationId, queryMsgId) of the request that
\* created message i, up to the opening of the backend stream for
\* state.message.id.
StartStream(i) ==
    /\ starts.req[i].pc = "created"
    /\ LET id == findGeneratingState(starts.map, starts.req[i].conversationId)
       IN starts' = [starts EXCEPT !.req[i].pc = IF id = 0 THEN "noState" ELSE "stream",
                                   !.req[i].drives = id]
    /\ startFrame

\* A response event of the stream of request i: it is applied to the state
\* of its eventId, if that state is in the map.
StartResponse(i) ==
    /\ starts.req[i].pc = "stream"
    /\ LET id == starts.req[i].drives
       IN /\ starts.applied[id] < MaxStartEvents
          /\ \E k \in 1..Len(starts.map) : starts.map[k].id = id
          /\ starts' = [starts EXCEPT !.applied[id] = @ + 1]
    /\ startFrame

\* The end event of the stream of request i: the state of its eventId is
\* deleted.
StartEnd(i) ==
    /\ starts.req[i].pc = "stream"
    /\ LET id == starts.req[i].drives
           Other(st) == st.id # id
       IN starts' = [starts EXCEPT !.map = SelectSeq(@, Other), !.req[i].pc = "done"]
    /\ startFrame

StartInit == AtRest("starts") /\ starts = NoStart

StartNext ==
    \/ \E c \in ConvIds : CreateGeneration(c)
    \/ \E i \in 1..MaxStarts : StartStream(i)
    \/ \E i \in 1..MaxStarts : StartResponse(i)
    \/ \E i \in 1..MaxStarts : StartEnd(i)

SpecStart == StartInit /\ [][StartNext]_vars

(***************************************************************************)
(* Specification of the stream event processor: the events of one stream   *)
(* applied, in arrival order, to a generation whose stream is open.        *)
(***************************************************************************)
\* The block list when the stream is opened: empty, or the search block of a
\* search subflow that failed.
OpeningContents == {<<>>, <<Block("search", "error", SearchFailed)>>}

StreamInit ==
    /\ RecoveryIdle
    /\ MultiIdle
    /\ BudgetIdle
    /\ LifeIdle
    /\ searchEnabled = FALSE
    /\ streamOpened = TRUE
    /\ generatingMessages = {Msg}
    /\ content \in OpeningContents
    /\ isCancelled = FALSE
    /\ isSearching = FALSE
    /\ firstTokenTime = FALSE
    /\ reasoningStartTime = FALSE
    /\ totalUsage = NoUsage
    /\ promptTokens = 10
    /\ dbContent = content
    /\ dbStatus = "pending"
    /\ dbMeta = NoMeta
    /\ pc = "stream"
    /\ cur = NoEvent
    /\ lastIdx = 0
    /\ nEvents = 0
    /\ emits = 0
    /\ last = NoEvent
    /\ run = NoRun

StreamResponse == \E ev \in StreamEvents : nEvents < MaxStreamEvents /\ handleLLMAgentResponse(ev)

StreamNext ==
    \/ StreamResponse
    \/ ResponseAfterFirstToken
    \/ ResponseAfterReasoningStart
    \/ ResponseAfterSearch

SpecStream == StreamInit /\ [][StreamNext]_vars

(***************************************************************************)
(* Specification of a stream with a failing tool call that ends normally:  *)
(* the events of the stream, then the end event and its writes.            *)
(***************************************************************************)
MaxFinalEvents == 3    \* response events before the end event

ToolError == ToolEvent("error", "T1", ToolName("T1"), "err-T1")

FinalEvents == {ToolEvent("start", "T1", ToolName("T1"), ""), ToolError, ContentDelta("a")}

FinalResponse ==
    \E ev \in FinalEvents : nEvents < MaxFinalEvents /\ handleLLMAgentResponse(ev)

FinalNext ==
    \/ FinalResponse
    \/ ResponseAfterFirstToken
    \/ handleLLMAgentEnd(FALSE)
    \/ EndMetadata
    \/ EndStatus
    \/ EndEdit
    \/ EndDelete

SpecFinal == StreamInit /\ [][FinalNext]_vars

(***************************************************************************)
(* Specification of the startup recovery: any store a prior process        *)
(* lifetime can have left, no generation under way.                        *)
(***************************************************************************)
RecoveryInit ==
    /\ MultiIdle
    /\ BudgetIdle
    /\ GenerationIdle
    /\ LifeIdle
    /\ searchEnabled = FALSE
    /\ streamOpened = FALSE
    /\ conversations \in [ConvIds -> {c \in LeftConversations : c.paged <= Len(c.thread)}]
    /\ recovery = [NoRecovery EXCEPT !.pc = "start"]

RecoveryNext ==
    \/ initializeUnfinishedMessages
    \/ RecoveryGetMessages
    \/ RecoveryHandle
    \/ RecoveryStatus
    \/ RecoveryEdit

SpecRecovery == RecoveryInit /\ [][RecoveryNext]_vars

(***************************************************************************)
(* Specification of the startup recovery with the presenter in use: the    *)
(* constructor does not await initializeUnfinishedMessages, so a           *)
(* generation can be started while the scan is under way.                  *)
(***************************************************************************)
\* The assistant message that generateAIResponse creates in this lifetime.
CreatedNow == [StoredMessage("assistant", "pending", <<>>) EXCEPT !.left = "current"]

IsCreatedNow(msg) == msg.left = "current"

\* generateAIResponse(conversationId, userMessageId): messageManager.sendMessage
\* stores the new assistant message with status pending at the end of the
\* thread; it is on the page of getMessages when the whole thread is.
LiveGenerateAIResponse(c) ==
    /\ recovery.pc \notin {"idle", "start"}
    /\ SelectSeq(conversations[c].thread, IsCreatedNow) = <<>>
    /\ conversations' = [conversations EXCEPT
                            ![c].thread = Append(@, CreatedNow),
                            ![c].paged = IF @ = Len(conversations[c].thread) THEN @ + 1 ELSE @]
    /\ UNCHANGED recovery
    /\ recoveryFrame

LiveNext ==
    \/ RecoveryNext
    \/ \E c \in ConvIds : LiveGenerateAIResponse(c)

SpecRecoveryLive == RecoveryInit /\ [][LiveNext]_vars

(***************************************************************************)
(* Specification of several generations at once: their streams are open,   *)
(* the events of each arrive in its own loop, stop requests arrive for a   *)
(* message or for a conversation.  The generations belong to one           *)
(* conversation or to two.                                                 *)
(***************************************************************************)
\* Two generations with their streams open, of one conversation or of two.
MultiStreams ==
    /\ \E c \in ConvIds :
           states = [m \in MsgIds |->
                        [active |-> TRUE, conversationId |-> IF m = "m1" THEN "c1" ELSE c,
                         content |-> <<>>, isCancelled |-> FALSE, firstTokenTime |-> FALSE]]
    /\ rows = [m \in MsgIds |-> [content |-> <<>>, status |-> "pending"]]
    /\ flows = [m \in MsgIds |->
                   [pc |-> "stream", stop |-> "idle", nEvents |-> 0,
                    stopStreamCalled |-> FALSE, hme |-> <<>>]]
    /\ convStop = NoConvStop

MultiInit ==
    /\ RecoveryIdle
    /\ BudgetIdle
    /\ GenerationIdle
    /\ LifeIdle
    /\ searchEnabled = FALSE
    /\ streamOpened = FALSE
    /\ MultiStreams

MultiNext ==
    \/ \E m \in MsgIds : MultiResponse(m)
    \/ \E m \in MsgIds : MultiResponseAfterFirstToken(m)
    \/ \E m \in MsgIds, stop \in BOOLEAN : MultiEnd(m, stop)
    \/ \E m \in MsgIds : MultiEndStatus(m)
    \/ \E m \in MsgIds : MultiEndEdit(m)
    \/ \E m \in MsgIds : MultiEndDelete(m)
    \/ \E m \in MsgIds : MultiError(m)
    \/ \E m \in MsgIds : MultiErrorStatus(m)
    \/ \E m \in MsgIds : MultiErrorEdit(m)
    \/ \E m \in MsgIds : MultiErrorReturn(m)
    \/ \E m \in MsgIds : MultiStop(m)
    \/ \E m \in MsgIds : MultiStopEdit(m)
    \/ \E m \in MsgIds : MultiStopStream(m)
    \/ \E m \in MsgIds : MultiStopDelete(m)
    \/ \E c \in ConvIds : stopConversationGeneration(c)
    \/ ConvStopReturn

SpecMulti == MultiInit /\ [][MultiNext]_vars

(***************************************************************************)
(* clearAllMessages(conversationId) while generations are under way, split *)
(* at its awaits.                                                          *)
(***************************************************************************)
clearFrame == UNCHANGED <<generationVars, recoveryVars, fmt, cont, bus, starts, store, mirror, adapter>>

\* clearAllMessages up to the await of messageManager.clearAllMessages: the
\* stored messages of the conversation are deleted.
clearAllMessages(c) ==
    /\ clear.pc = "ready"
    /\ clear' = [clear EXCEPT !.pc = "deleted", !.conv = c]
    /\ rows' = [m \in MsgIds |->
                   IF states[m].conversationId = c
                   THEN [content |-> <<>>, status |-> "none"] ELSE rows[m]]
    /\ UNCHANGED <<states, flows, convStop>>
    /\ clearFrame

\* conversationId === this.activeConversationId: stopConversationGeneration
\* is called and awaited.
ClearStopConversation ==
    /\ clear.pc = "deleted"
    /\ clear.conv = clear.active
    /\ convStop.pc = "idle"
    /\ LET ids == {m \in MsgIds : states[m].active /\ states[m].conversationId = clear.conv}
       IN /\ \A m \in ids : flows[m].stop = "idle"
          /\ convStop' = [pc |-> "called", conv |-> clear.conv, ids |-> ids]
          /\ StopBegin(ids)
    /\ clear' = [clear EXCEPT !.pc = "stopping"]
    /\ clearFrame

\* The conversation is not the active one: clearAllMessages returns.
ClearReturnAtOnce ==
    /\ clear.pc = "deleted"
    /\ clear.conv # clear.active
    /\ clear' = [clear EXCEPT !.pc = "done"]
    /\ UNCHANGED multiVars
    /\ clearFrame

\* Every stopMessageGeneration of the call has returned: clearAllMessages
\* returns.
ClearReturn ==
    /\ clear.pc = "stopping"
    /\ convStop.pc = "called"
    /\ \A m \in convStop.ids : flows[m].stop \in {"done", "noop"}
    /\ convStop' = NoConvStop
    /\ clear' = [clear EXCEPT !.pc = "done"]
    /\ UNCHANGED <<states, rows, flows>>
    /\ clearFrame

\* activeConversationId is a conversation or null.
ClearInit ==
    /\ RecoveryIdle
    /\ PromptIdle
    /\ GenerationIdle
    /\ LifeIdle
    /\ searchEnabled = FALSE
    /\ streamOpened = FALSE
    /\ LaterIdleExcept("clear")
    /\ MultiStreams
    /\ \E a \in ConvIds \cup {""} : clear = [NoClear EXCEPT !.pc = "ready", !.active = a]

ClearNext ==
    \/ \E c \in ConvIds : clearAllMessages(c)
    \/ ClearStopConversation
    \/ ClearReturnAtOnce
    \/ ClearReturn
    \/ \E m \in MsgIds : MultiResponse(m)
    \/ \E m \in MsgIds : MultiResponseAfterFirstToken(m)
    \/ \E m \in MsgIds : MultiStopEdit(m)
    \/ \E m \in MsgIds : MultiStopStream(m)
    \/ \E m \in MsgIds : MultiStopDelete(m)

SpecClear == ClearInit /\ [][ClearNext]_vars

(***************************************************************************)
(* The renderer chat store: sendMessage, retryMessage and continueStream,  *)
(* split at their awaits, and the handlers of the end and error events of  *)
(* a stream.                                                               *)
(***************************************************************************)
ThreadIds == {"t1", "t2"}

StoreOps == {"sendMessage", "retryMessage", "continueStream"}

storeFrame == UNCHANGED <<generationVars, recoveryVars, multiVars, fmt, cont, bus, starts, clear, mirror, adapter>>

\* The call up to its first await: sendMessage and continueStream add the
\* thread to generatingThreadIds before they ask the presenter for the
\* assistant message, retryMessage does not.
StoreCall(r, op, t) ==
    /\ store.req[r].pc = "none"
    /\ \A q \in 1..(r - 1) : store.req[q].pc # "none"
    /\ store' = [store EXCEPT
                    !.req[r] = [op |-> op, pc |-> "presenter", threadId |-> t],
                    !.generatingThreadIds = IF op = "retryMessage" THEN @ ELSE @ \cup {t}]
    /\ storeFrame

\* threadP.sendMessage / threadP.retryMessage returns the assistant message,
\* returns nothing, or throws.  With the message the cache entry is set and
\* loadMessages is awaited; continueStream returns when there is none; every
\* other case ends in the catch, which logs and throws again.
StorePresenterReturns(r, outcome) ==
    /\ store.req[r].pc = "presenter"
    /\ store' = IF outcome = "message"
                THEN [store EXCEPT !.generatingMessagesCache = @ \cup {r},
                                   !.req[r].pc = "loadMessages"]
                ELSE IF outcome = "nothing" /\ store.req[r].op = "continueStream"
                THEN [store EXCEPT !.req[r].pc = "returned"]
                ELSE [store EXCEPT !.req[r].pc = "failed"]
    /\ storeFrame

\* loadMessages has returned or thrown: retryMessage now adds the thread,
\* and the stream completion is asked of the presenter.
StoreLoaded(r, ok) ==
    /\ store.req[r].pc = "loadMessages"
    /\ store' = IF ~ok THEN [store EXCEPT !.req[r].pc = "failed"]
                ELSE [store EXCEPT
                         !.req[r].pc = "completion",
                         !.generatingThreadIds =
                             IF store.req[r].op = "retryMessage"
                             THEN @ \cup {store.req[r].threadId} ELSE @]
    /\ storeFrame

\* handleStreamEnd / handleStreamError for the message of call r: when the
\* message is in the cache, it is removed and so is its thread.
handleStreamEnd(r) ==
    /\ store.req[r].pc = "completion"
    /\ store' = IF r \in store.generatingMessagesCache
                THEN [store EXCEPT
                         !.generatingMessagesCache = @ \ {r},
                         !.generatingThreadIds = @ \ {store.req[r].threadId},
                         !.req[r].pc = "ended"]
                ELSE [store EXCEPT !.req[r].pc = "ended"]
    /\ storeFrame

\* startStreamCompletion / continueStreamCompletion returns or throws.
StoreCompletionReturns(r, ok) ==
    /\ store.req[r].pc \in {"completion", "ended"}
    /\ store' = [store EXCEPT !.req[r].pc = IF ok THEN "done" ELSE "failed"]
    /\ storeFrame

StoreInit == AtRest("store") /\ store = NoStore

StoreNext ==
    \/ \E r \in 1..MaxRequests, op \in StoreOps, t \in ThreadIds : StoreCall(r, op, t)
    \/ \E r \in 1..MaxRequests, outcome \in {"message", "nothing", "throws"} :
           StorePresenterReturns(r, outcome)
    \/ \E r \in 1..MaxRequests, ok \in BOOLEAN : StoreLoaded(r, ok)
    \/ \E r \in 1..MaxRequests : handleStreamEnd(r)
    \/ \E r \in 1..MaxRequests, ok \in BOOLEAN : StoreCompletionReturns(r, ok)

SpecStore == StoreInit /\ [][StoreNext]_vars

(***************************************************************************)
(* The block list of one message as the presenter builds it               *)
(* (handleLLMAgentResponse) and as the renderer store builds it            *)
(* (handleStreamResponse), for the same response events.                   *)
(***************************************************************************)
\* The block mutations of handleLLMAgentResponse for one event, from the
\* first await to the last: the for-await loop takes the next event only
\* when they are done.
ResponseBlocks(bs, ev) ==
    IF ev.maximum_tool_calls_reached THEN LimitPart(bs, ev)
    ELSE IF HasSearchResults(ev)
    THEN LET b1 == SearchPart(bs, ev)
             li == ShiftedLast(bs, b1, Len(bs))
         IN ReasoningPart(MainPart(b1, li, ev), li, ev)
    ELSE ReasoningPart(MainPart(bs, Len(bs), ev), Len(bs), ev)

\* msg.tool_call in the store: the response of an end event is kept only
\* when it is not empty, a failure without response reads "tool call failed".
StoreToolPart(bs, ev) ==
    IF ev.tool_call = "start"
    THEN Append(CloseAt(bs, Len(bs)),
                [Block("tool_call", "loading", "")
                    EXCEPT !.id = ev.tool_call_id, !.name = ev.tool_call_name])
    ELSE IF ev.tool_call \in {"end", "error"}
    THEN LET i == FindToolCallBlock(bs, ev)
         IN IF i = 0 THEN bs
            ELSE IF ev.tool_call = "error"
            THEN [bs EXCEPT ![i].status = "error",
                            ![i].response = IF ev.tool_call_response = ""
                                            THEN "tool call failed"
                                            ELSE ev.tool_call_response]
            ELSE [bs EXCEPT ![i].status = "success",
                            ![i].response = IF ev.tool_call_response = ""
                                            THEN @ ELSE ev.tool_call_response]
    ELSE bs

\* if (maximum_tool_calls_reached) ... else if (tool_call) ... else if
\* (image_data) ... else if (content) ...; each branch reads the last block
\* of the list as it is then.
StoreMainPart(bs, ev) ==
    IF ev.maximum_tool_calls_reached THEN LimitPart(bs, ev)
    ELSE IF ev.tool_call # "" THEN StoreToolPart(bs, ev)
    ELSE IF ev.image_data THEN ImagePart(bs, Len(bs), ev)
    ELSE IF ev.content # "" THEN ContentPart(bs, Len(bs), ev)
    ELSE bs

\* handleStreamResponse for a cached message: the reasoning part reads the
\* last block after the main part has run.
handleStreamResponse(bs, ev) ==
    LET b1 == StoreMainPart(bs, ev)
    IN ReasoningPart(b1, Len(b1), ev)

mirrorFrame == UNCHANGED <<generationVars, recoveryVars, multiVars, fmt, cont, bus, starts, clear, store, adapter>>

\* One response event, handled by the presenter and by the store.
MirrorResponse(ev) ==
    /\ mirror.n < MaxMirrorEvents
    /\ mirror' = [n |-> mirror.n + 1,
                  presenter |-> ResponseBlocks(mirror.presenter, ev),
                  renderer |-> handleStreamResponse(mirror.renderer, ev)]
    /\ mirrorFrame

MirrorInit == AtRest("mirror") /\ mirror = NoMirror

MirrorNext == \E ev \in StreamEvents : MirrorResponse(ev)

SpecMirror == MirrorInit /\ [][MirrorNext]_vars

(***************************************************************************)
(* openAIStreamCompletion of the OpenAI-compatible adapter: the loop over  *)
(* the chunks of the backend stream and the flush after it.  Texts are     *)
(* sequences of characters.                                                *)
(***************************************************************************)
WINDOW_SIZE == 10

ThinkTag == <<"<", "t", "h", "i", "n", "k", ">">>
ThinkEndTag == <<"<", "/", "t", "h", "i", "n", "k", ">">>
LongText == <<"a", "a", "a", "a", "a", "a">>

\* A chunk: delta.reasoning_content and delta.content.
Chunk(r, c) == [reasoning_content |-> r, content |-> c]

Chunks ==
    {Chunk(<<>>, c) : c \in {<<>>, <<"a">>, <<" ", "b">>, LongText, ThinkTag, ThinkEndTag}}
    \cup {Chunk(<<"r">>, <<>>)}

Yield(kind, text) == [kind |-> kind, text |-> text]

\* text.indexOf(tag) and text.lastIndexOf(tag), -1 when there is none.
Occurrences(text, tag) ==
    {i \in 0..(Len(text) - Len(tag)) : SubSeq(text, i + 1, i + Len(tag)) = tag}

indexOf(text, tag) ==
    IF Occurrences(text, tag) = {} THEN -1
    ELSE CHOOSE i \in Occurrences(text, tag) : \A j \in Occurrences(text, tag) : i <= j

lastIndexOf(text, tag) ==
    IF Occurrences(text, tag) = {} THEN -1
    ELSE CHOOSE i \in Occurrences(text, tag) : \A j \in Occurrences(text, tag) : j <= i

includes(text, tag) == Occurrences(text, tag) # {}

\* text.substring(from) and text.substring(0, to).
substringFrom(text, from) == SubSeq(text, from + 1, Len(text))
substringTo(text, to) == SubSeq(text, 1, to)

RECURSIVE SkipBlanks(_, _)
SkipBlanks(text, at) ==
    IF at < Len(text) /\ text[at + 1] = " " THEN SkipBlanks(text, at + 1) ELSE at

\* cleanTag(text, tag).cleanedPosition: past the tag and the blanks after it,
\* 0 when the tag is not there.
cleanTag(text, tag) ==
    IF ~includes(text, tag) THEN 0 ELSE SkipBlanks(text, indexOf(text, tag) + Len(tag))

\* "isInThinkTag = true ... buffer = buffer.substring(cleanedPosition)": the
\* text before the tag is yielded, the tag is dropped.
EnterThinkTag(a, buf) ==
    [a EXCEPT !.isInThinkTag = TRUE,
              !.out = IF indexOf(buf, ThinkTag) > 0
                      THEN Append(@, Yield("content", substringTo(buf, indexOf(buf, ThinkTag))))
                      ELSE @,
              !.buffer = substringFrom(buf, cleanTag(buf, ThinkTag))]

\* if (!hasCheckedFirstChunk) {...}: the content is added to initialBuffer,
\* and nothing more happens until a tag is in it.
FirstChunkCheck(a, text) ==
    LET ib == a.initialBuffer \o text
    IN IF includes(ib, ThinkTag) \/ includes(ib, ThinkEndTag)
       THEN LET trimmed == TrimStart(ib)
                hasReasoning == includes(trimmed, ThinkTag) \/ includes(trimmed, ThinkEndTag)
                checked == [a EXCEPT !.hasCheckedFirstChunk = TRUE,
                                     !.hasReasoningContent = hasReasoning,
                                     !.initialBuffer = <<>>]
            IN IF ~hasReasoning
               THEN [checked EXCEPT !.out = Append(@, Yield("content", ib))]
               ELSE EnterThinkTag(checked, ib)
       ELSE [a EXCEPT !.initialBuffer = ib]

\* else if (isInThinkTag) {...}
InsideThinkTag(a, text) ==
    LET buf == a.buffer \o text
    IN IF includes(buf, ThinkEndTag)
       THEN LET thinkEnd == indexOf(buf, ThinkEndTag)
                rest == substringFrom(buf, cleanTag(buf, ThinkEndTag))
                o1 == IF thinkEnd > 0
                      THEN Append(a.out, Yield("reasoning_content", substringTo(buf, thinkEnd)))
                      ELSE a.out
            IN [a EXCEPT !.isInThinkTag = FALSE, !.hasReasoningContent = FALSE,
                         !.buffer = <<>>,
                         !.out = IF rest # <<>> THEN Append(o1, Yield("content", rest)) ELSE o1]
       ELSE IF Len(buf) > WINDOW_SIZE
       THEN [a EXCEPT !.out = Append(@, Yield("reasoning_content",
                                              substringTo(buf, Len(buf) - WINDOW_SIZE))),
                      !.buffer = substringFrom(buf, Len(buf) - WINDOW_SIZE)]
       ELSE [a EXCEPT !.buffer = buf]

\* One turn of "for await (const chunk of stream)".
LoopBody(a, chunk) ==
    IF chunk.reasoning_content # <<>>
    THEN [a EXCEPT !.out = Append(@, Yield("reasoning_content", chunk.reasoning_content))]
    ELSE IF chunk.content = <<>> THEN a
    ELSE IF ~a.hasCheckedFirstChunk THEN FirstChunkCheck(a, chunk.content)
    ELSE IF ~a.hasReasoningContent
    THEN [a EXCEPT !.out = Append(@, Yield("content", chunk.content))]
    ELSE IF ~a.isInThinkTag /\ includes(a.buffer, ThinkTag) THEN EnterThinkTag(a, a.buffer)
    ELSE IF a.isInThinkTag THEN InsideThinkTag(a, chunk.content)
    ELSE [a EXCEPT !.out = Append(@, Yield("content", a.buffer \o chunk.content)),
                   !.buffer = <<>>]

\* The yields after the loop, for what is left in buffer.
FlushBuffer(a) ==
    IF a.buffer = <<>> THEN <<>>
    ELSE IF ~a.isInThinkTag /\ includes(a.buffer, ThinkEndTag)
    THEN LET at == lastIndexOf(a.buffer, ThinkEndTag)
             beforeLastEnd == trim(substringTo(a.buffer, at))
             afterLastEnd == trim(substringFrom(a.buffer, at + 8))
         IN (IF beforeLastEnd # <<>> THEN <<Yield("reasoning_content", beforeLastEnd)>>
             ELSE <<>>)
            \o (IF afterLastEnd # <<>> THEN <<Yield("content", afterLastEnd)>> ELSE <<>>)
    ELSE IF a.isInThinkTag THEN <<Yield("reasoning_content", a.buffer)>>
    ELSE <<Yield("content", a.buffer)>>

adapterFrame == UNCHANGED <<generationVars, recoveryVars, multiVars, fmt, cont, bus, starts, clear, store, mirror>>

\* The backend stream delivers a chunk.
AdapterChunk(chunk) ==
    /\ adapter.pc = "loop"
    /\ Len(adapter.chunks) < MaxChunks
    /\ adapter' = LoopBody([adapter EXCEPT !.chunks = Append(@, chunk)], chunk)
    /\ adapterFrame

\* The backend stream ends: what is left in the buffers is yielded.
AdapterFlush ==
    /\ adapter.pc = "loop"
    /\ adapter' = [adapter EXCEPT
                      !.pc = "done",
                      !.out = (IF adapter.initialBuffer # <<>>
                               THEN Append(@, Yield("content", adapter.initialBuffer))
                               ELSE @) \o FlushBuffer(adapter)]
    /\ adapterFrame

AdapterInit == AtRest("adapter") /\ adapter = [NoAdapter EXCEPT !.pc = "loop"]

AdapterNext ==
    \/ \E chunk \in Chunks : AdapterChunk(chunk)
    \/ AdapterFlush

SpecAdapter == AdapterInit /\ [][AdapterNext]_vars

(***************************************************************************)
(* Properties.                                                             *)
(***************************************************************************)
\* C1: in every reachable state the message being built has at most one
\* block whose status is loading, optimizing or reading.
C1_AtMostOneNonTerminal == Cardinality(NonTerminalBlocks(content)) <= 1

\* A step in which the block mutations of a response event ran.
MutationStep == pc' = "stream" /\ (nEvents' # nEvents \/ pc # "stream") /\ last' # NoEvent

\* C3: a tool-call-end or tool-call-error event carrying id T changes the
\* status and response of no tool_call block whose id differs from T.
Started(bs, id) == \E i \in 1..Len(bs) : bs[i].type = "tool_call" /\ bs[i].id = id

C3_ToolCallPairing ==
    [][(/\ MutationStep
        /\ last'.tool_call \in {"end", "error"}
        /\ Started(content, last'.tool_call_id)
        /\ Len(content') = Len(content))
          => \A i \in 1..Len(content) :
                 (content[i].type = "tool_call" /\ content[i].id # last'.tool_call_id)
                     => content'[i] = content[i]]_vars

IsSuffix(t, s) == Len(t) <= Len(s) /\ SubSeq(s, Len(s) - Len(t) + 1, Len(s)) = t

\* C4 as claimed: a run of consecutive deltas of one kind yields exactly one
\* block of that kind whose content is the concatenation of the payloads.
C4_RunIsOneBlock ==
    run.kind # "none" =>
        /\ Len(content) = run.len
        /\ content[run.idx].type = run.kind
        /\ content[run.idx].content = run.text

\* C4 as amended: the deltas of a run are appended in arrival order to one
\* block of that kind, the second and later ones in place; the block's
\* content is the concatenation of the payloads when the first delta of the
\* run opened it, and ends with that concatenation when the block was
\* already the last one.
C4_RunAppendsInPlace ==
    run.kind # "none" =>
        /\ Len(content) = run.len
        /\ run.idx = Len(content)
        /\ content[run.idx].type = run.kind
        /\ content[run.idx].status = "loading"
        /\ IsSuffix(run.text, content[run.idx].content)
        /\ run.opened => content[run.idx].content = run.text

C4_Witness ==
    /\ run.kind = "content"
    /\ run.text = "ab"
    /\ run.opened
    /\ Len(content) = 2
    /\ content[2].content = "ab"

Max(a, b) == IF a >= b THEN a ELSE b

\* C5 as claimed: the estimated token sum of the selected history is at
\* most the budget minus the reserved tokens.
C5_SumWithinRemaining ==
    bpc = "built" => SumTokens(selectedContextMessages) <= contextLength - reservedTokens

\* C5 as amended: the sum is at most the budget minus the reserved tokens
\* whenever that difference is not negative, and nothing is selected when it
\* is negative.
C5_SumWithinBudget ==
    bpc = "built" =>
        SumTokens(selectedContextMessages) <= Max(contextLength - reservedTokens, 0)

C5_Witness ==
    /\ bpc = "built"
    /\ Len(selectedContextMessages) = 2
    /\ SumTokens(selectedContextMessages) = 300
    /\ Len(HistoryOf(contextMessages, userMessageId)) = 4

\* The example of the specification: budget 300, reserve 60, five history
\* messages of 150 tokens each.
BudgetExample ==
    /\ contextLength = 300
    /\ reservedTokens = 60
    /\ userMessageId = 0
    /\ Len(contextMessages) = 5
    /\ \A i \in 1..5 : msgTokens(contextMessages[i]) = 150

\* C6: with a positive remaining budget the selected history is the k most
\* recent history messages in chronological order, they fit, and either all
\* history is selected or the next older message would not fit; in the
\* example exactly the most recent message is selected.
C6_PrefixMaximal ==
    (bpc = "built" /\ remainingContextLength > 0) =>
        LET h == HistoryOf(contextMessages, userMessageId)
            k == Len(selectedContextMessages)
        IN /\ k <= Len(h)
           /\ selectedContextMessages = LastK(h, k)
           /\ SumTokens(selectedContextMessages) <= remainingContextLength
           /\ \/ k = Len(h)
              \/ SumTokens(selectedContextMessages) + msgTokens(h[Len(h) - k])
                     > remainingContextLength
           /\ BudgetExample => selectedContextMessages = <<contextMessages[5]>>

C6_Witness ==
    /\ bpc = "built"
    /\ BudgetExample
    /\ selectedContextMessages = <<contextMessages[5]>>

\* The generation flow has returned and no stop request is under way.
Terminated ==
    /\ pc \in {"done", "failed", "returned"}
    /\ \A p \in StopPositions \ {"idle", "noop", "done"} : stopPc[p] = 0

CancelStatusBlocks(bs) == {i \in 1..Len(bs) : bs[i].status = "cancel"}

\* C2: once a stop request has pushed the cancel block, no block is added
\* and no block changes, and the final content holds exactly one block with
\* status cancel.
C2_CancellationDeterminism ==
    [][/\ cancels > 0 => content' = content
       /\ (Terminated' /\ cancels' > 0) => Cardinality(CancelStatusBlocks(content')) = 1]_vars

\* C7: the outputTokens persisted at the end of the stream are the
\* completion_tokens of the last usage totals the backend reported, and the
\* sum of the local estimates over the content, reasoning and tool_call
\* blocks when it reported none.
C7_UsagePrecedence ==
    dbMeta.finalized =>
        dbMeta.outputTokens =
            IF reportedUsage.set THEN reportedUsage.completion_tokens
            ELSE EstimateTokens(content)

C7_Witness ==
    /\ dbMeta.finalized
    /\ reportedUsage.set
    /\ EstimateTokens(content) > 0
    /\ dbMeta.outputTokens = reportedUsage.completion_tokens
    /\ dbMeta.outputTokens # EstimateTokens(content)

\* C8: a generation that has terminated (normal end, backend error, failure
\* while preparing, stop) is no longer in the active-generation set.
C8_TerminatedRemoved == Terminated => Msg \notin generatingMessages

ErrorRecorded ==
    /\ Len(dbContent) > 0
    /\ dbContent[Len(dbContent)] = Block("error", "error", hmeMsg)
    /\ hmeMsg \in {NotFound, "Error: prompt", BackendError}
    /\ dbStatus = "error"
    /\ surfaced = IF errored = "preparing" THEN "rejected" ELSE "event"

\* C9: when the handling of an error that is not a cancellation (a failure
\* while preparing or an error event of the backend) completes, the stored
\* content ends with an error block recording the error, the stored status
\* is error, and the failure has reached the caller (rejection for a failure
\* while preparing, error event otherwise).
C9_ErrorRecorded ==
    [][(errored = "none" /\ errored' \in {"preparing", "backend"}) => ErrorRecorded']_vars

\* C10: when a stop request for an active generation completes, the blocks
\* it found loading, optimizing or reading have status success, the cancel
\* block is the last block, the backend was asked to stop the stream and the
\* message is no longer in the active-generation set.
C10_StopPostcondition ==
    [][stopPc'["done"] > stopPc["done"] =>
           /\ \A i \in closedAt' : content'[i].status = "success"
           /\ content'[Len(content')] = CancelBlock
           /\ stopStreamCalled'
           /\ Msg \notin generatingMessages']_vars

\* A stop request has found the generation active and set its flag.
StopAccepted == \E p \in StopPositions \ {"idle", "noop"} : stopPc[p] > 0

\* C11: once a stop request has set the cancellation flag of the generation,
\* the backend streaming call is not opened for the message.
C11_NoStreamAfterStop ==
    [][StopAccepted => (streamOpened' = streamOpened)]_vars

FailureBlocks(bs) == {i \in 1..Len(bs) : bs[i].type = "error" /\ bs[i].status = "error"}

\* C12: once the backend has been asked to stop the stream, whatever event
\* the stream delivers next, the flow does not fail (no failure handling is
\* started, nothing is thrown to the caller) and the message gains no
\* failure error block: the cancellation is recorded by the cancel block only.
C12_CancelIsNotFailure ==
    [][(stopStreamCalled /\ pc = "stream") =>
           /\ pc' \notin {"hme_read", "failed"}
           /\ Cardinality(FailureBlocks(content')) <= Cardinality(FailureBlocks(content))]_vars

\* The blocks that carry output of the model.
ProducedBlocks(bs) ==
    {i \in 1..Len(bs) :
        bs[i].type \in {"content", "reasoning_content", "tool_call", "image"}}

NoModelResponseBlocks(bs) ==
    {i \in 1..Len(bs) : bs[i] = Block("error", "error", NoModelResponse)}

\* C13: when the end event of a stream that the user did not stop has been
\* handled for a generation that produced no content, reasoning, tool_call or
\* image block and that no stop request has cancelled, the stored content
\* holds exactly one error block, the "no model response" block, and the
\* stored status is sent.
C13_NoModelResponse ==
    (/\ pc = "done"
     /\ dbMeta.finalized
     /\ ~userStop
     /\ ~StopAccepted
     /\ ProducedBlocks(content) = {}) =>
        /\ Cardinality(NoModelResponseBlocks(dbContent)) = 1
        /\ Cardinality(FailureBlocks(dbContent)) = 1
        /\ dbStatus = "sent"

C13_Witness ==
    /\ pc = "done"
    /\ dbMeta.finalized
    /\ ~userStop
    /\ ~StopAccepted
    /\ Len(dbContent) = 2
    /\ dbContent[1].type = "search"
    /\ dbContent[2] = Block("error", "error", NoModelResponse)
    /\ dbStatus = "sent"

\* C14: after a backend error event has been handled for the message, a step
\* of the stream (the handling of a later response event or of the end event)
\* changes neither the blocks of the message nor its stored status, and the
\* stored status is still error.
C14_ErrorIsFinal ==
    [][(errored = "backend" /\ stopPc' = stopPc) =>
           /\ dbContent' = dbContent
           /\ content' = content
           /\ dbStatus = "error"
           /\ dbStatus' = "error"]_vars

C14_Witness ==
    /\ errored = "backend"
    /\ pc = "done"
    /\ nEvents > 0
    /\ dbStatus = "error"
    /\ Cardinality(FailureBlocks(dbContent)) > 0

\* The message has its search block (startStreamSearch puts it in front).
HasSearchBlock(bs) == Len(bs) > 0 /\ bs[1].type = "search"

\* Place of the search block on loading(total=0) -> optimizing -> reading ->
\* loading(total=N) -> success | error; the second loading is the one written
\* when the search engine has returned.
SearchRank(bs, at) ==
    CASE bs[1].status = "loading" /\ at # "s_attach" -> 1
      [] bs[1].status = "optimizing" -> 2
      [] bs[1].status = "reading" -> 3
      [] bs[1].status = "loading" /\ at = "s_attach" -> 4
      [] OTHER -> 5

\* C15: in every step, whatever stop requests interleave, the search block
\* does not move backwards on its progression, becomes success only from
\* loading(total=N), that is after it has been reading, and does not change
\* once it is success or error.
C15_SearchProgression ==
    [][(HasSearchBlock(content) /\ HasSearchBlock(content')) =>
           /\ SearchRank(content', pc') >= SearchRank(content, pc)
           /\ (content[1].status \in {"success", "error"}
                  => content'[1].status = content[1].status)
           /\ (content'[1].status = "success" /\ content[1].status # "success"
                  => SearchRank(content, pc) = 4)]_vars

\* C16: when the search engine call fails and the generation is not
\* cancelled, the failure is caught where it happens and writes no error
\* status; startStreamCompletion then goes on to build the prompt (which
\* fails only for a reason of its own), hands it no search result, and opens
\* the backend stream; the stored status is error only if a stop request, a
\* prompt failure or a backend error has set it.
C16_SearchFailureNonFatal ==
    [][/\ (searchErr # "fail" /\ searchErr' = "fail")
              => (pc' = "s_catch" /\ dbStatus' = dbStatus)
       /\ (searchErr = "fail" /\ pc = "s_catch" /\ pc' # pc /\ ~isMessageCancelled)
              => /\ searchResults' = 0
                 /\ \/ pc' = "gen_state"
                    \/ pc' = "hme_read" /\ hmeMsg' = "Error: prompt"
       /\ (searchErr = "fail" /\ pc = "gen_state" /\ pc' # pc /\ ~isMessageCancelled)
              => (streamOpened' /\ pc' = "stream" /\ searchResults = 0)
       /\ (searchErr = "fail" /\ dbStatus' = "error")
              => \/ StopAccepted'
                 \/ pc' \in {"hme_status", "hme_edit", "failed"}
                 \/ errored' # "none"]_vars

C16_Witness ==
    /\ searchErr = "fail"
    /\ streamOpened
    /\ pc = "stream"
    /\ searchResults = 0
    /\ dbStatus = "pending"
    /\ content[1].status = "error"
    /\ ~StopAccepted

\* C17: when a request has failed because the conversation or a message it
\* refers to does not exist, no partial state exists: generateAIResponse has
\* inserted no assistant message and put no state in the map, and
\* startStreamCompletion has left no state in the map.
C17_NoPartialState ==
    /\ pc = "rejected" => (dbStatus = "none" /\ Msg \notin generatingMessages)
    /\ (pc = "failed" /\ hmeMsg = NotFound) => Msg \notin generatingMessages

\* The assistant messages that the prior process lifetime left pending.
LeftPending ==
    {<<c, i>> \in ConvIds \X (1..MaxThread) :
        /\ i <= Len(conversations[c].thread)
        /\ conversations[c].thread[i].role = "assistant"
        /\ conversations[c].thread[i].left = "pending"}

\* C18: when the startup recovery has completed, every assistant message that
\* the prior process lifetime left pending has status error and its content
\* ends with the "session interrupted" error block.
C18_RecoveryConvertsPending ==
    recovery.pc = "done" =>
        \A m \in LeftPending :
            LET msg == conversations[m[1]].thread[m[2]]
            IN /\ msg.status = "error"
               /\ msg.content # <<>>
               /\ msg.content[Len(msg.content)] = Block("error", "error", SessionInterrupted)

\* C19: in every step, a generation none of whose own events (response, end,
\* error, stop) is being handled keeps its generating state, its blocks and
\* its stored content and status: a handler touches the message of its
\* event only.
C19_HandlersKeepToTheirMessage ==
    [][\A m \in MsgIds :
           flows'[m] = flows[m] => (states'[m] = states[m] /\ rows'[m] = rows[m])]_vars

C19_Witness ==
    /\ states["m1"].conversationId # states["m2"].conversationId
    /\ rows["m1"].status = "sent"
    /\ hasContentBlock(rows["m1"].content)
    /\ rows["m2"].status = "error"
    /\ rows["m2"].content = <<CancelBlock>>
    /\ ~states["m1"].active
    /\ ~states["m2"].active

CancelBlocks(bs) == {i \in 1..Len(bs) : bs[i].status = "cancel"}

\* C20: the call of stopConversationGeneration(c) leaves the state and the
\* stored message of every generation of another conversation unchanged,
\* and when the call returns every generation it found active for c is out
\* of the map and its content, in memory and stored, has a cancel-status
\* block.
C20_StopAllGenerations ==
    [][/\ (convStop.pc = "idle" /\ convStop'.pc = "called") =>
              \A m \in MsgIds :
                  states[m].conversationId # convStop'.conv =>
                      (states'[m] = states[m] /\ rows'[m] = rows[m] /\ flows'[m] = flows[m])
       /\ (convStop.pc = "called" /\ convStop'.pc = "idle") =>
              \A m \in convStop.ids :
                  /\ ~states'[m].active
                  /\ CancelBlocks(states'[m].content) # {}
                  /\ CancelBlocks(rows'[m].content) # {}]_vars

IsPrefix(t, s) == Len(t) <= Len(s) /\ SubSeq(s, 1, Len(t)) = t

\* Block list b is at least as recent as block list a: every block of a is
\* still there, at its place (one further when a search block has been put in
\* front since), with its type and with a content that extends what it was.
NotOlder(a, b) ==
    \E d \in {0, 1} :
        /\ Len(b) >= Len(a) + d
        /\ d = 1 => (HasSearchBlock(b) /\ ~HasSearchBlock(a))
        /\ \A i \in 1..Len(a) :
               /\ b[i + d].type = a[i].type
               /\ IsPrefix(a[i].content, b[i + d].content)

\* A step that completes the handling of a response event.
ResponseHandled ==
    /\ pc \in {"stream", "resp_usage", "resp_mutate", "resp_tool"}
    /\ pc' = "stream"
    /\ (nEvents' # nEvents \/ pc # "stream")

\* C21: when the handling of a response event that changed the block list
\* completes, the stored content is the block list in memory; and once the
\* stream is open no write puts the stored content back to a block list
\* older than the one stored.
C21_PersistedFollowsMemory ==
    [][/\ (ResponseHandled /\ content' # content) => dbContent' = content'
       /\ streamOpened => NotOlder(dbContent, dbContent')]_vars

\* Positions of the search blocks of a block list.
SearchBlocksAt(bs) == {i \in 1..Len(bs) : bs[i].type = "search"}

IsSearchBlock(b) == b.type = "search"
NonSearch(bs) == SelectSeq(bs, LAMBDA b : ~IsSearchBlock(b))

\* Block list b keeps the blocks of a where they were: same types at the same
\* positions, texts only grown.
KeepsBlocks(a, b) ==
    /\ Len(a) <= Len(b)
    /\ \A i \in 1..Len(a) :
           /\ b[i].type = a[i].type
           /\ IsPrefix(a[i].content, b[i].content)

\* C22: the block list of the message holds at most one search block, at the
\* front; a search block once present stays; and every step keeps the other
\* blocks in the order in which they were opened, removing and moving none.
C22_OneSearchBlockInFront ==
    [][/\ SearchBlocksAt(content') \subseteq {1}
       /\ SearchBlocksAt(content) \subseteq SearchBlocksAt(content')
       /\ KeepsBlocks(NonSearch(content), NonSearch(content'))]_vars

\* The search subflow put a search block in front and a tool response with
\* search results was then handled next to other blocks.
C22_Witness ==
    /\ searchEnabled
    /\ Len(content) >= 2
    /\ content[1].type = "search"
    /\ content[1].total >= 2

\* C23: the events of one stream are handled one at a time in arrival order:
\* an event is taken only when no handler of the stream is suspended, a
\* suspended handler is followed by its own continuation and by no other
\* handler of the stream, and the handling that completes is the one of the
\* event taken last.
C23_OneEventAtATime ==
    [][/\ nEvents' # nEvents => (pc = "stream" /\ cur = NoEvent)
       /\ pc \in HandlerSuspended =>
              /\ pc' \in HandlerSuspended \cup {"stream"}
              /\ cur' \in {cur, NoEvent}
              /\ (pc' = "stream" => last' = cur)]_vars

\* The second event of a stream is being handled: its handler is suspended
\* after the handling of the first event completed.
C23_Witness ==
    /\ nEvents = 2
    /\ pc \in HandlerSuspended
    /\ last # NoEvent
    /\ cur # last

SearchCancelled(b) ==
    b.type = "search" /\ b.status = "error" /\ b.content = UserCanceled

\* C24: once a cancellation check of the search subflow has seen a stop
\* request, the search block is in the error status with the cancellation
\* reason as its content, in memory and in the store, whatever stop steps come
\* before or after; and when the subflow has returned the search of the
\* conversation has been stopped.
C24_SearchCancelled ==
    searchErr = "cancel" =>
        /\ SearchCancelled(content[1])
        /\ SearchCancelled(dbContent[1])
        /\ pc # "s_catch" => stopSearchCalled

\* The cancellation handler of the subflow ran while the stop handler was
\* waiting for the search to stop, and the stop handler closed the
\* non-terminal blocks after it.
C24_Witness ==
    /\ searchErr = "cancel"
    /\ pc = "returned"
    /\ stopPc["done"] > 0
    /\ Len(content) = 2
    /\ content[2] = CancelBlock

\* The rewrite gave no query: it failed or its text is empty.
RewriteGaveNothing(r) ==
    r.kind \in {"noConversation", "throws"} \/ (r.kind = "text" /\ trim(r.text) = <<>>)

\* C25: when the rewrite fails or returns an empty text, the search engine is
\* called with the user query as it is and the search block is in the reading
\* status; and the rewrite step is left for the search engine call whatever
\* its outcome, unless a stop request has cancelled the generation.
C25_RewriteFallback ==
    [][/\ (pc = "s_rewrite" /\ pc' = "s_search" /\ RewriteGaveNothing(engineCall'.rewrite)) =>
              /\ engineCall'.query = UserQuery
              /\ content'[1].status = "reading"
       /\ (pc = "s_rewrite" /\ pc' # pc) =>
              \/ pc' = "s_search"
              \/ isMessageCancelled /\ pc' = "s_catch" /\ searchErr' = "cancel"]_vars

\* The search engine call is in flight after a rewrite that returned blanks.
C25_Witness ==
    /\ pc = "s_search"
    /\ engineCall.rewrite = [kind |-> "text", text |-> <<" ">>]
    /\ engineCall.query = UserQuery

RECURSIVE ItemAtoms(_)
ItemAtoms(items) ==
    IF items = <<>> THEN <<>>
    ELSE (IF IsText(Head(items)) THEN Head(items).text ELSE <<Head(items).url>>)
         \o ItemAtoms(Tail(items))

\* The atoms of an entry, in the order in which its content holds them.
EntryAtoms(e) == IF e.array THEN ItemAtoms(e.items) ELSE e.text

Roles(entries) == [i \in 1..Len(entries) |-> entries[i].role]

FromHistory(atom) == atom[1] \in {"message", "image"}

\* The budget is used up by the reserve.
NothingRemains == contextLength - reservedTokens <= 0

\* The text of the current user turn.
CurrentTurn ==
    (IF searchPromptLen > 0 THEN <<SearchPrompt>> ELSE <<UserContent>>)
    \o (IF fmt.enriched THEN <<NL, NL, Enrichment>> ELSE <<>>)

\* C26: when the context length minus the reserve is at most 0, the entries
\* sent to the backend are the system entry (when a system prompt is set)
\* and the current user turn, and hold nothing of the history.
C26_NoHistoryWithoutBudget ==
    (fmt.pc = "merged" /\ NothingRemains) =>
        /\ Roles(fmt.merged) =
               (IF systemPromptLen > 0 THEN <<"system">> ELSE <<>>) \o <<"user">>
        /\ \A i \in 1..Len(fmt.merged) :
               SelectSeq(EntryAtoms(fmt.merged[i]), FromHistory) = <<>>
        /\ SelectSeq(EntryAtoms(fmt.merged[Len(fmt.merged)]), LAMBDA a : a[1] # "file")
               = CurrentTurn

\* The reserve takes the whole budget of a conversation with history, a
\* system prompt and search results.
C26_Witness ==
    /\ fmt.pc = "merged"
    /\ contextLength = 160
    /\ contextLength - reservedTokens = 0
    /\ Len(contextMessages) = 2
    /\ userMessageId = 0
    /\ Len(fmt.merged) = 2

SystemEntries(entries) == {i \in 1..Len(entries) : entries[i].role = "system"}

\* Length in characters of a text made of the system prompt and line feeds.
RECURSIVE SystemTextLen(_)
SystemTextLen(t) ==
    IF t = <<>> THEN 0
    ELSE (IF Head(t) = SystemPrompt THEN systemPromptLen ELSE 1) + SystemTextLen(Tail(t))

\* C27: with a system prompt set, the entries sent to the backend hold one
\* system entry, the system prompt occurs once in it, and the tokens counted
\* for it are those of the system prompt.
C27_SystemPromptOnce ==
    (fmt.pc = "merged" /\ systemPromptLen > 0) =>
        /\ Cardinality(SystemEntries(fmt.merged)) = 1
        /\ \A i \in SystemEntries(fmt.merged) :
               /\ Len(SelectSeq(fmt.merged[i].text, LAMBDA a : a = SystemPrompt)) = 1
               /\ TokensOfLen(SystemTextLen(fmt.merged[i].text)) = systemPromptTokens

\* The roles of the runs of adjacent entries of one role.
RECURSIVE RoleRuns(_)
RoleRuns(roles) ==
    IF Len(roles) <= 1 THEN roles
    ELSE IF roles[1] = roles[2] THEN RoleRuns(Tail(roles))
    ELSE <<roles[1]>> \o RoleRuns(Tail(roles))

RECURSIVE AllAtoms(_)
AllAtoms(entries) ==
    IF entries = <<>> THEN <<>> ELSE EntryAtoms(Head(entries)) \o AllAtoms(Tail(entries))

IsImageAtom(atom) == atom[1] \in {"image", "file"}
IsTextAtom(atom) == atom[1] \notin {"image", "file", "nl"}

\* The text segments of the entries of one role run, and their image
\* segments, run by run.
TextSegments(entries) == SelectSeq(AllAtoms(entries), IsTextAtom)
ImageSegments(entries) == SelectSeq(AllAtoms(entries), IsImageAtom)

\* C28: after the merge no two adjacent entries share a role, the role runs
\* of the entries are kept, and the text segments and the image segments of
\* the entries are all there, once each and in their order.
C28_MergeKeepsEverything ==
    fmt.pc = "merged" =>
        /\ \A i \in 1..(Len(fmt.merged) - 1) : fmt.merged[i].role # fmt.merged[i + 1].role
        /\ Roles(fmt.merged) = RoleRuns(Roles(fmt.formatted))
        /\ TextSegments(fmt.merged) = TextSegments(fmt.formatted)
        /\ ImageSegments(fmt.merged) = ImageSegments(fmt.formatted)

\* Two assistant entries with array content were merged into one that holds
\* the images of both.
C28_Witness ==
    /\ fmt.pc = "merged"
    /\ Len(fmt.formatted) = 3
    /\ fmt.formatted[1].array /\ fmt.formatted[2].array
    /\ Len(fmt.merged) = 2
    /\ Len(SelectSeq(fmt.merged[1].items, IsNotText)) = 2

\* A step of the handler of a response event, and the event it handles.
HandlerStep == nEvents' # nEvents \/ (pc \in HandlerSuspended /\ pc' # pc)
HandledEvent == IF pc' = "stream" THEN last' ELSE cur'

\* The event ends or fails a tool call and no loading tool_call block of bs
\* matches it.
NoMatch(ev, bs) == ev.tool_call \in {"end", "error"} /\ FindToolCallBlock(bs, ev) = 0

\* The blocks of a whose type is in types are in b, after the search block
\* that may have been put in front, with their status, content and response.
KeepsFields(a, b, types) ==
    LET d == Len(b) - Len(a)
    IN /\ d \in {0, 1}
       /\ \A i \in 1..Len(a) :
              a[i].type \in types =>
                  /\ b[i + d].type = a[i].type
                  /\ b[i + d].status = a[i].status
                  /\ b[i + d].content = a[i].content
                  /\ b[i + d].response = a[i].response

BlockTypes ==
    {"content", "reasoning_content", "tool_call", "image", "action", "error", "search"}

\* The handler goes on to its end and writes no error status.
HandlerGoesOn == pc' \in HandlerSuspended \cup {"stream"} /\ dbStatus' = dbStatus

\* C29 as stated: the handling of a tool call end or error event that no
\* loading tool_call block matches leaves the status, content and response
\* of every block as they were and goes on.
C29_NoMatchChangesNothing ==
    [][(HandlerStep /\ Msg \in generatingMessages /\ NoMatch(HandledEvent, content)) =>
           /\ KeepsFields(content, content', BlockTypes)
           /\ HandlerGoesOn]_vars

\* C29: the handling of a tool call end or error event that no loading
\* tool_call block matches leaves the status, content and response of every
\* block but the search block as they were (search results that the event
\* carries are recorded in the search block) and goes on.
C29_NoMatchKeepsOtherBlocks ==
    [][(HandlerStep /\ Msg \in generatingMessages /\ NoMatch(HandledEvent, content)) =>
           /\ KeepsFields(content, content', BlockTypes \ {"search"})
           /\ HandlerGoesOn]_vars

\* An end event for a tool call that was not started has been handled after a
\* content delta, whose block is still loading.
C29_Witness ==
    /\ pc = "stream"
    /\ nEvents = 2
    /\ last = ToolEvent("end", "T3", ToolName("T3"), "res-T3")
    /\ Len(content) = 1
    /\ content[1].type = "content"
    /\ content[1].status = "loading"

\* The last action block of bs is a pause that waits to be resumed.
PausePending(bs) == LastActionBlock(bs) # 0 /\ bs[LastActionBlock(bs)].needContinue

\* C30: handling the tool call limit event appends an action block with
\* status success, the pending tool call and needContinue true, and stores
\* it; the pending tool is invoked only when the stored needContinue is
\* false; once it has been invoked the stored needContinue stays false; and
\* the tool of the pause is invoked at most once.
C30_ResumeFlag ==
    [][/\ (HandlerStep /\ pc' = "stream" /\ last'.maximum_tool_calls_reached
           /\ Msg \in generatingMessages) =>
              LET b == content'[Len(content')]
              IN /\ b.type = "action" /\ b.status = "success" /\ b.needContinue
                 /\ b.id = last'.tool_call_id /\ b.name = last'.tool_call_name
                 /\ dbContent' = content'
       /\ cont'.toolCalls # cont.toolCalls => ~PausePending(dbContent)
       /\ cont.toolCalls > 0 => ~PausePending(dbContent')
       /\ cont'.toolCalls <= 1]_vars

\* C31: on the event bus, the handler of a later response event has never
\* appended its text while the handler of an earlier event of the message
\* still awaits the first-token metadata write.
C31_EmissionOrder ==
    \A i, j \in 1..MaxBusEvents :
        i < j /\ bus.handler[j] = "done" => bus.handler[i] # "firstToken"

\* C32: once the cancel block of a stop request has been appended, the
\* stored status of the message is never sent: no end event handled after
\* the stop was accepted writes it.
C32_CancelledNeverSent == cancels > 0 => dbStatus # "sent"

\* C33: a tool_call block stored with the terminal status error still has
\* status error in the content that the end handler stores.
C33_ErrorStatusStored ==
    [][pc = "end_edit" /\ pc' = "end_delete" =>
           \A i \in 1..Len(dbContent) :
               dbContent[i].type = "tool_call" /\ dbContent[i].status = "error"
                   => i <= Len(dbContent') /\ dbContent'[i].status = "error"]_vars

\* C34: the stream that startStreamCompletion opens for the request that
\* created assistant message i is opened for message i, and its events are
\* applied to message i, also when an older state of the same conversation
\* is in generatingMessages.
C34_DrivesOwnMessage ==
    \A i \in 1..MaxStarts : starts.req[i].pc = "stream" => starts.req[i].drives = i

\* C35: whenever no response handler is under way, every response event
\* handled so far, a tool-call-limit event included, has been emitted once
\* on STREAM_EVENTS.RESPONSE.
C35_EveryEventEmitted == pc = "stream" => emits = nEvents

\* C36: an assistant message created by a generation of the current process
\* lifetime, also one created while the recovery scan is under way, never
\* gets the status error or the "session interrupted" block from the scan.
C36_RecoverySparesNewMessages ==
    \A c \in ConvIds : \A i \in 1..Len(conversations[c].thread) :
        IsCreatedNow(conversations[c].thread[i])
            => /\ conversations[c].thread[i].status # "error"
               /\ \A k \in 1..Len(conversations[c].thread[i].content) :
                      conversations[c].thread[i].content[k].content # SessionInterrupted

\* C37: when clearAllMessages(conversationId) has returned, no state of
\* that conversation is left in generatingMessages, whether the
\* conversation is the active one or not.
C37_ClearStopsGenerations ==
    clear.pc = "done" =>
        \A m \in MsgIds : states[m].active => states[m].conversationId # clear.conv

\* A call of the store is over without an assistant message of its own in
\* generatingMessagesCache.
EndedWithoutMessage(r) ==
    /\ store.req[r].pc \in {"failed", "returned"}
    /\ r \notin store.generatingMessagesCache

\* Another call for the thread is under way or has its message in the cache.
OtherInFlight(r) ==
    \E q \in 1..MaxRequests :
        /\ q # r
        /\ store.req[q].threadId = store.req[r].threadId
        /\ \/ store.req[q].pc \in {"presenter", "loadMessages", "completion"}
           \/ q \in store.generatingMessagesCache

\* C38: when a call of sendMessage, retryMessage or continueStream is over
\* without an assistant message in generatingMessagesCache and nothing else
\* generates for its thread, the thread is not in generatingThreadIds.
C38_NoStaleGeneratingThread ==
    \A r \in 1..MaxRequests :
        EndedWithoutMessage(r) /\ ~OtherInFlight(r)
            => store.req[r].threadId \notin store.generatingThreadIds

\* Kind, content and status of the blocks that are not search blocks.
Shown(bs) ==
    LET nb == NonSearch(bs)
    IN [i \in 1..Len(nb) |->
           [type |-> nb[i].type, content |-> nb[i].content, status |-> nb[i].status]]

\* C39: after every response event of a message, the block list of the
\* renderer store and the block list of the presenter have the same
\* non-search blocks: same kinds, contents and statuses.
C39_RendererMirrorsPresenter == Shown(mirror.renderer) = Shown(mirror.presenter)

RECURSIVE Concat(_)
Concat(texts) == IF texts = <<>> THEN <<>> ELSE Head(texts) \o Concat(Tail(texts))

\* The content received so far, and the content yielded so far.
ContentReceived ==
    Concat([i \in 1..Len(adapter.chunks) |->
               IF adapter.chunks[i].reasoning_content # <<>> THEN <<>>
               ELSE adapter.chunks[i].content])

ContentYielded ==
    Concat([i \in 1..Len(adapter.out) |->
               IF adapter.out[i].kind = "content" THEN adapter.out[i].text ELSE <<>>])

TagFree(text) == ~includes(text, ThinkTag) /\ ~includes(text, ThinkEndTag)

\* C40: while the text received has no <think> or </think> tag, the adapter
\* has yielded the content of every chunk it has consumed when it takes the
\* next chunk.
C40_IncrementalOutput ==
    adapter.pc = "loop" /\ TagFree(ContentReceived) => ContentYielded = ContentReceived

====
